---- MODULE Spec2Model ----
(***************************************************************************)
(* Model of scripts/accounts-invariants/pallet-balances-maintenance.py:    *)
(* the version classifier, the two account-invariant predicates, the dust  *)
(* predicate, the paged account scanner, the chunking generator, the two   *)
(* batch dispatchers and the __main__ orchestration.                       *)
(*                                                                         *)
(* Spec      : one run of the script (__main__) against a chain.           *)
(* SpecUnit  : direct calls of the pure functions and of the scanner with  *)
(*             inputs drawn from bounded sets.                             *)
(***************************************************************************)
EXTENDS Integers, Sequences, FiniteSets, TLC

VARIABLES
    args,       \* argparse.Namespace returned by get_args()
    environ,    \* os.environ: SENDER_ACCOUNT
    chain,      \* what the RPC node answers: runtime version, ED, System.Account
    pc,         \* position of the thread of control
    locals,     \* module-level names bound by __main__
    scan,       \* frame of filter_false_accounts (and its query_map iterator)
    disp,       \* frame of batch_transfer / upgrade_accounts
    client,     \* calls the chain client has received (compose, sign, submit)
    files,      \* output artifacts on disk
    log,        \* records handed to the logger, in order
    exit,       \* how the process ended
    unit_in,    \* SpecUnit: the function called and its arguments
    unit_out    \* SpecUnit: what the call returned or raised

vars == <<args, environ, chain, pc, locals, scan, disp, client, files, log, exit,
          unit_in, unit_out>>

---------------------------------------------------------------------------
(* Bounds of the model *)

\* balances of SpecUnit accounts range over 0..MaxBalance
MaxBalance == 2
\* providers and consumers of SpecUnit accounts range over 0..MaxRefCount
MaxRefCount == 2
\* the existential deposit of SpecUnit ranges over 0..MaxED
MaxED == 2
\* spec versions handed to the classifier range over 0..MaxSpecVersion
MaxSpecVersion == 70
\* length of the lists handed to chunks() in SpecUnit
MaxListLen == 5
\* chunk sizes handed to chunks() in SpecUnit
MaxChunk == 3
\* batch sizes of a run (--transfer-calls-in-batch, --upgrade-accounts-in-batch)
MaxBatch == 2
\* number of accounts of the chain scanned in SpecUnit
MaxScanLen == 5
\* number of accounts on the chain of a run
MaxAccounts == 3
\* page size of query_map; the script asks for 1000, scaled so that a scan
\* crosses page boundaries
PageSize == 2
\* progress is logged every 5000 accounts in the script, scaled likewise
ProgressEvery == 2

---------------------------------------------------------------------------
(* Python values *)

Ret(v) == [exc |-> "none", value |-> v]
Raise(e) == [exc |-> e, value |-> FALSE]

Min(a, b) == IF a < b THEN a ELSE b
Max(a, b) == IF a > b THEN a ELSE b

\* a decoded SCALE object: obj.value
Scale(v) == [value |-> v]

\* flags is a u128: eight 16-bit limbs, most significant first
LimbBits == 2 * 8
NumLimbs == 128 \div LimbBits
LimbBase == 2 ^ LimbBits

RECURSIVE BigCmp(_, _, _)
BigCmp(a, b, k) ==
    IF k > NumLimbs THEN 0
    ELSE IF a[k] > b[k] THEN 1
    ELSE IF a[k] < b[k] THEN -1
    ELSE BigCmp(a, b, k + 1)

\* a >= b on u128 values
BigGE(a, b) == BigCmp(a, b, 1) >= 0

\* 2 ** e as a u128
BigPow2(e) ==
    [k \in 1..NumLimbs |->
        IF NumLimbs - k = e \div LimbBits THEN 2 ^ (e % LimbBits) ELSE 0]

BigZero == [k \in 1..NumLimbs |-> 0]
BigOne == [k \in 1..NumLimbs |-> IF k = NumLimbs THEN 1 ELSE 0]
BigAllOnes == [k \in 1..NumLimbs |-> LimbBase - 1]
\* 2^127 - 1 and 2^127 + 1
BigBelowTop == [k \in 1..NumLimbs |-> IF k = 1 THEN (LimbBase \div 2) - 1 ELSE LimbBase - 1]
BigAboveTop == [k \in 1..NumLimbs |-> IF k = 1 THEN LimbBase \div 2
                                      ELSE IF k = NumLimbs THEN 1 ELSE 0]

FlagsValues ==
    {BigZero, BigOne, BigPow2(126), BigBelowTop, BigPow2(127), BigAboveTop, BigAllOnes}

---------------------------------------------------------------------------
(* class ChainMajorVersion *)

PRE_12_MAJOR_VERSION == "PRE_12_MAJOR_VERSION"
AT_LEAST_12_MAJOR_VERSION == "AT_LEAST_12_MAJOR_VERSION"
ChainMajorVersion == {PRE_12_MAJOR_VERSION, AT_LEAST_12_MAJOR_VERSION}

\* cls(value): a member is returned as it is, any other value is looked up
\* among the members' values ((65,) and 68)
ChainMajorVersionCall(value) ==
    IF value \in ChainMajorVersion THEN Ret(value) ELSE Raise("ValueError")

\* the highest spec version of the pre-12 runtimes
LastPre12SpecVersion == 65

from_spec_version_wrong_threshold(spec_version) ==
    ChainMajorVersionCall(IF spec_version < LastPre12SpecVersion
                          THEN PRE_12_MAJOR_VERSION
                          ELSE AT_LEAST_12_MAJOR_VERSION)

from_spec_version(spec_version) ==
    ChainMajorVersionCall(IF spec_version <= LastPre12SpecVersion
                          THEN PRE_12_MAJOR_VERSION
                          ELSE AT_LEAST_12_MAJOR_VERSION)

get_chain_major_version(chain_connection) ==
    LET runtime_version == chain_connection.runtime_version
        spec_version == runtime_version.specVersion
    IN  from_spec_version(spec_version)

---------------------------------------------------------------------------
(* Account records *)

\* AccountInfo of a pre-12 runtime
PreAccountInfo(providers, consumers, free, reserved, misc_frozen, fee_frozen) ==
    [providers |-> Scale(providers), consumers |-> Scale(consumers),
     data |-> [free |-> Scale(free), reserved |-> Scale(reserved),
               misc_frozen |-> Scale(misc_frozen), fee_frozen |-> Scale(fee_frozen)]]

\* AccountInfo of a runtime of version 12 or later
PostAccountInfo(providers, consumers, free, reserved, frozen, flags) ==
    [providers |-> Scale(providers), consumers |-> Scale(consumers),
     data |-> [free |-> Scale(free), reserved |-> Scale(reserved),
               frozen |-> Scale(frozen), flags |-> Scale(flags)]]

\* info.serialize(): the plain values of the decoded object
serialize(info) ==
    [f \in DOMAIN info |->
        IF f = "data" THEN [g \in DOMAIN info.data |-> info.data[g].value]
        ELSE info[f].value]

\* the exponent of the "new logic" flag bit
UpgradedFlagExponent == 127

check_account_invariants_ed_on_total(account, chain_major_version, ed) ==
    LET providers == account.providers.value
        consumers == account.consumers.value
        free == account.data.free.value
        reserved == account.data.reserved.value
        account_ref_counter_invariant ==
            (providers <= 1 /\ consumers = 0) \/ (consumers > 0 /\ providers = 1)
    IN  IF chain_major_version = PRE_12_MAJOR_VERSION
        THEN IF {"misc_frozen", "fee_frozen"} \subseteq DOMAIN account.data
             THEN Ret(account_ref_counter_invariant
                      /\ free >= ed
                      /\ free >= Max(account.data.misc_frozen.value,
                                     account.data.fee_frozen.value))
             ELSE Raise("KeyError")
        ELSE IF {"frozen", "flags"} \subseteq DOMAIN account.data
             THEN Ret(account_ref_counter_invariant
                      /\ free + reserved >= ed
                      /\ free + reserved >= account.data.frozen.value
                      /\ (~BigGE(account.data.flags.value, BigPow2(UpgradedFlagExponent))
                          \/ (account.data.frozen.value = 0 /\ reserved = 0)
                          \/ consumers > 0))
             ELSE Raise("KeyError")

check_account_invariants(account, chain_major_version, ed) ==
    LET providers == account.providers.value
        consumers == account.consumers.value
        free == account.data.free.value
        reserved == account.data.reserved.value
        account_ref_counter_invariant ==
            (providers <= 1 /\ consumers = 0) \/ (consumers > 0 /\ providers = 1)
    IN  IF chain_major_version = PRE_12_MAJOR_VERSION
        THEN IF {"misc_frozen", "fee_frozen"} \subseteq DOMAIN account.data
             THEN LET misc_frozen == account.data.misc_frozen.value
                      fee_frozen == account.data.fee_frozen.value
                      ed_is_for_total_balance_invariant == free + reserved >= ed
                      locked_balance_is_on_free_balance_invariant ==
                          free >= Max(misc_frozen, fee_frozen)
                  IN  Ret(account_ref_counter_invariant
                          /\ ed_is_for_total_balance_invariant
                          /\ locked_balance_is_on_free_balance_invariant)
             ELSE Raise("KeyError")
        ELSE IF {"frozen", "flags"} \subseteq DOMAIN account.data
             THEN LET frozen == account.data.frozen.value
                      flags == account.data.flags.value
                      ed_is_for_free_balance_only_invariant == free >= ed
                      locked_balance_is_on_total_balance_invariant ==
                          free + reserved >= frozen
                      is_account_already_upgraded ==
                          BigGE(flags, BigPow2(UpgradedFlagExponent))
                      consumer_ref_applies_to_suspended_balances_invariant ==
                          (~is_account_already_upgraded
                           \/ (frozen = 0 /\ reserved = 0)
                           \/ consumers > 0)
                  IN  Ret(account_ref_counter_invariant
                          /\ ed_is_for_free_balance_only_invariant
                          /\ locked_balance_is_on_total_balance_invariant
                          /\ consumer_ref_applies_to_suspended_balances_invariant)
             ELSE Raise("KeyError")

\* the dust predicate without its two assertions
check_if_account_would_be_dust_no_asserts(account, chain_major_version, ed) ==
    Ret(account.data.free.value < ed)

\* the dust predicate comparing with <= instead of <
check_if_account_would_be_dust_le(account, chain_major_version, ed) ==
    IF chain_major_version # PRE_12_MAJOR_VERSION THEN Raise("AssertionError")
    ELSE LET inv == check_account_invariants(account, chain_major_version, ed)
         IN  IF inv.exc # "none" THEN inv
             ELSE IF ~inv.value THEN Raise("AssertionError")
             ELSE Ret(account.data.free.value <= ed)

check_if_account_would_be_dust_in_12_version(account, chain_major_version, ed) ==
    IF chain_major_version # PRE_12_MAJOR_VERSION THEN Raise("AssertionError")
    ELSE LET inv == check_account_invariants(account, chain_major_version, ed)
         IN  IF inv.exc # "none" THEN inv
             ELSE IF ~inv.value THEN Raise("AssertionError")
             ELSE LET free == account.data.free.value
                  IN  Ret(free < ed)

---------------------------------------------------------------------------
(* chunks(list_of_elements, n) *)

\* list(range(start, stop, step)) for step >= 1
RECURSIVE range(_, _, _)
range(start, stop, step) ==
    IF start >= stop THEN <<>> ELSE <<start>> \o range(start + step, stop, step)

\* list_of_elements[lo:hi] for 0 <= lo <= hi: indices past the end are clipped
Slice(list_of_elements, lo, hi) ==
    SubSeq(list_of_elements, Min(lo, Len(list_of_elements)) + 1,
           Min(hi, Len(list_of_elements)))

chunks_drop_short_tail(list_of_elements, n) ==
    LET starts == range(0, Len(list_of_elements) - (Len(list_of_elements) % n), n)
    IN  [k \in 1..Len(starts) |-> Slice(list_of_elements, starts[k], starts[k] + n)]

\* list(chunks(list_of_elements, n)): what the generator yields, in order
chunks(list_of_elements, n) ==
    LET starts == range(0, Len(list_of_elements), n)
    IN  [k \in 1..Len(starts) |-> Slice(list_of_elements, starts[k], starts[k] + n)]

---------------------------------------------------------------------------
(* filter_false_accounts and the query_map iterator it consumes *)

\* the predicates the script hands to the scanner, and for SpecUnit a
\* predicate given by the set of records it is false on
CheckAccountInvariantsPred == [fn |-> "check_account_invariants", false_on |-> {}]
NotDustPred == [fn |-> "lambda: not check_if_account_would_be_dust_in_12_version",
                false_on |-> {}]

\* a predicate that returns True for every account
LambdaTruePred == [fn |-> "table", false_on |-> {}]

LambdaFalsePred == [fn |-> "lambda: False", false_on |-> {}]
TablePred(false_on) == [fn |-> "table", false_on |-> false_on]

\* check_accounts_predicate(info, chain_major_version, ed)
CallPredicate(pred, info, chain_major_version, ed) ==
    CASE pred.fn = "check_account_invariants" ->
            check_account_invariants(info, chain_major_version, ed)
      [] pred.fn = "lambda: not check_if_account_would_be_dust_in_12_version" ->
            LET r == check_if_account_would_be_dust_in_12_version(
                         info, chain_major_version, ed)
            IN  IF r.exc # "none" THEN r ELSE Ret(~r.value)
      [] pred.fn = "lambda: False" -> Ret(FALSE)
      [] OTHER -> Ret(info \notin pred.false_on)

\* one page of System.Account after the storage key last_key
RetrievePage(chain_connection, last_key) ==
    Slice(chain_connection.accounts, last_key, last_key + PageSize)

NoScan ==
    [caller |-> "none", pred |-> LambdaFalsePred, name |-> "",
     chain_major_version |-> PRE_12_MAJOR_VERSION, ed |-> 0,
     records |-> <<>>, buffer_index |-> 0, last_key |-> 0, loading_complete |-> TRUE,
     i |-> 0, total_accounts_count |-> 0,
     accounts_that_do_not_meet_predicate |-> <<>>, visited |-> <<>>]

\* the frame of filter_false_accounts after query_map has returned with the
\* first page
EnterFilterFalseAccounts(caller, chain_connection, ed, chain_major_version, pred, name) ==
    LET page == RetrievePage(chain_connection, 0)
    IN  [caller |-> caller, pred |-> pred, name |-> name,
         chain_major_version |-> chain_major_version, ed |-> ed,
         records |-> page, buffer_index |-> 0, last_key |-> Len(page),
         loading_complete |-> Len(page) < PageSize,
         i |-> 0, total_accounts_count |-> 0,
         accounts_that_do_not_meet_predicate |-> <<>>, visited |-> <<>>]

\* an exception no frame catches: the interpreter prints the traceback and
\* exits with status 1; in SpecUnit the call under test raises
Uncaught(exc) ==
    IF unit_in.fn = "none"
    THEN /\ pc' = "terminated"
         /\ exit' = [code |-> 1, exception |-> exc]
         /\ UNCHANGED unit_out
    ELSE /\ pc' = "unit_done"
         /\ unit_out' = [done |-> TRUE, exc |-> exc, value |-> <<>>]
         /\ UNCHANGED exit

\* the iterator has used up its page and asks the node for the next one
ScanFetchPage ==
    /\ pc = "filter_false_accounts"
    /\ scan.buffer_index >= Len(scan.records)
    /\ ~scan.loading_complete
    /\ LET page == RetrievePage(chain, scan.last_key)
       IN  scan' = [scan EXCEPT !.records = page, !.buffer_index = 0,
                                !.last_key = @ + Len(page),
                                !.loading_complete = Len(page) < PageSize]
    /\ UNCHANGED <<args, environ, chain, pc, locals, disp, client, files, log, exit,
                   unit_in, unit_out>>

ScanBody_skip_first_of_page(rec, res) ==
    /\ scan' = [scan EXCEPT
            !.buffer_index = @ + 1,
            !.i = @ + 1,
            !.total_accounts_count = @ + 1,
            !.visited = Append(@, rec.account_id.value),
            !.accounts_that_do_not_meet_predicate =
                IF res.value \/ scan.buffer_index = 0 THEN @
                ELSE Append(@, <<rec.account_id.value, serialize(rec.info)>>)]
    /\ log' = log

\* one iteration of the for loop that did not raise
ScanBody(rec, res) ==
    /\ scan' = [scan EXCEPT
            !.buffer_index = @ + 1,
            !.i = @ + 1,
            !.total_accounts_count = @ + 1,
            !.visited = Append(@, rec.account_id.value),
            !.accounts_that_do_not_meet_predicate =
                IF res.value THEN @
                ELSE Append(@, <<rec.account_id.value, serialize(rec.info)>>)]
    /\ log' = log
            \o (IF res.value THEN <<>> ELSE <<"debug: Account does not meet given predicate">>)
            \o (IF scan.i % ProgressEvery = 0 /\ scan.i > 0
                THEN <<"info: Checked accounts">> ELSE <<>>)

ScanIterate ==
    /\ pc = "filter_false_accounts"
    /\ scan.buffer_index < Len(scan.records)
    /\ LET rec == scan.records[scan.buffer_index + 1]
           res == CallPredicate(scan.pred, rec.info, scan.chain_major_version, scan.ed)
       IN  IF res.exc # "none"
           THEN /\ Uncaught(res.exc)
                /\ scan' = [scan EXCEPT !.total_accounts_count = @ + 1,
                                        !.visited = Append(@, rec.account_id.value)]
                /\ UNCHANGED log
           ELSE /\ ScanBody(rec, res)
                /\ UNCHANGED <<pc, exit, unit_out>>
    /\ UNCHANGED <<args, environ, chain, locals, disp, client, files, unit_in>>

\* [x[0] for x in pairs]
FirstOfEach(pairs) == [k \in 1..Len(pairs) |-> pairs[k][1]]

NoCall == [call_module |-> "", call_function |-> "", call_params |-> <<>>]
NoExtrinsic == [call |-> NoCall, keypair |-> [uri |-> "unbound"]]

NoDisp ==
    [fn |-> "none", accounts |-> <<>>, n |-> 1, amount |-> 0, i |-> 0, stage |-> "idle",
     account_ids_chunk |-> <<>>, call |-> NoCall, extrinsic |-> NoExtrinsic,
     expected_number_of_events |-> 0]

\* the frame of a dispatcher on entering its for loop
EnterDispatcher(fn, accounts, n, amount) ==
    [NoDisp EXCEPT !.fn = fn, !.accounts = accounts, !.n = n, !.amount = amount,
                   !.stage = "for"]

\* the iterator is exhausted: log the total and return the list to the caller
ScanReturn ==
    /\ pc = "filter_false_accounts"
    /\ scan.buffer_index >= Len(scan.records)
    /\ scan.loading_complete
    /\ LET result == scan.accounts_that_do_not_meet_predicate
       IN  CASE scan.caller = "find_dust_accounts" ->
                   /\ locals' = [locals EXCEPT !.dust_accounts_in_12_version = result]
                   /\ pc' = "main_422"
                   /\ UNCHANGED <<disp, unit_out>>
             [] scan.caller = "upgrade_accounts" ->
                   /\ disp' = EnterDispatcher("upgrade_accounts", FirstOfEach(result),
                                              args.upgrade_accounts_in_batch, 0)
                   /\ pc' = "dispatch"
                   /\ UNCHANGED <<locals, unit_out>>
             [] scan.caller = "perform_account_sanity_checks" ->
                   /\ locals' = [locals EXCEPT !.invalid_accounts = result]
                   /\ pc' = "sanity_359"
                   /\ UNCHANGED <<disp, unit_out>>
             [] OTHER ->
                   /\ unit_out' = [done |-> TRUE, exc |-> "none", value |-> result]
                   /\ pc' = "unit_done"
                   /\ UNCHANGED <<locals, disp>>
    /\ log' = Append(log, "info: Total accounts that match given predicate")
    /\ scan' = [scan EXCEPT !.caller = "returned"]
    /\ UNCHANGED <<args, environ, chain, client, files, exit, unit_in>>

---------------------------------------------------------------------------
(* batch_transfer, upgrade_accounts and submit_extrinsic *)

NoClient ==
    [query_map |-> 0, composed |-> <<>>, signed |-> <<>>, submitted |-> <<>>,
     in_flight |-> <<>>, receipts |-> <<>>, trace |-> <<>>]

\* chain_connection.compose_call(...)
compose_call(call_module, call_function, call_params) ==
    [call_module |-> call_module, call_function |-> call_function,
     call_params |-> call_params]

\* a batch whose transfers fall short of the amount asked for
TransferBatchCall_short_amount(account_ids_chunk, amount) ==
    LET balance_calls ==
            [k \in 1..Len(account_ids_chunk) |->
                compose_call("Balances", "transfer",
                             [dest |-> account_ids_chunk[k], value |-> amount - 1])]
    IN  compose_call("Utility", "batch", [calls |-> balance_calls])

\* the batch call of one chunk of batch_transfer
TransferBatchCall(account_ids_chunk, amount) ==
    LET balance_calls ==
            [k \in 1..Len(account_ids_chunk) |->
                compose_call("Balances", "transfer",
                             [dest |-> account_ids_chunk[k], value |-> amount])]
    IN  compose_call("Utility", "batch", [calls |-> balance_calls])

\* an upgrade call that names only the first address of its chunk
UpgradeAccountsCall_first_only(account_ids_chunk) ==
    compose_call("Balances", "upgrade_accounts",
                 [who |-> SubSeq(account_ids_chunk, 1, 1)])

\* the call of one chunk of upgrade_accounts
UpgradeAccountsCall(account_ids_chunk) ==
    compose_call("Balances", "upgrade_accounts", [who |-> account_ids_chunk])

\* the chunks the for loop of the running dispatcher iterates over
DispChunks == chunks(disp.accounts, disp.n)

\* a transfer dispatcher that looks at the chain again and leaves out the
\* addresses that are no longer below ED
DispatchComposeCall_recheck ==
    /\ pc = "dispatch"
    /\ disp.stage = "for"
    /\ disp.i < Len(DispChunks)
    /\ LET StillDust(address) ==
               \E k \in 1..Len(chain.accounts) :
                   /\ chain.accounts[k].account_id.value = address
                   /\ chain.accounts[k].info.data.free.value < chain.ExistentialDeposit.value
           account_ids_chunk == IF disp.fn = "batch_transfer"
                                THEN SelectSeq(DispChunks[disp.i + 1], StillDust)
                                ELSE DispChunks[disp.i + 1]
           call == IF disp.fn = "batch_transfer"
                   THEN TransferBatchCall(account_ids_chunk, disp.amount)
                   ELSE UpgradeAccountsCall(account_ids_chunk)
       IN  /\ disp' = [disp EXCEPT !.stage = "composed",
                                   !.account_ids_chunk = account_ids_chunk,
                                   !.call = call]
           /\ client' = [client EXCEPT !.composed = Append(@, call),
                                       !.trace = Append(@, <<"compose", disp.i>>)]
    /\ UNCHANGED <<args, environ, chain, pc, locals, scan, files, log, exit,
                   unit_in, unit_out>>

\* the for loop of a dispatcher takes the next chunk and composes its call
DispatchComposeCall ==
    /\ pc = "dispatch"
    /\ disp.stage = "for"
    /\ disp.i < Len(DispChunks)
    /\ LET account_ids_chunk == DispChunks[disp.i + 1]
           call == IF disp.fn = "batch_transfer"
                   THEN TransferBatchCall(account_ids_chunk, disp.amount)
                   ELSE UpgradeAccountsCall(account_ids_chunk)
       IN  /\ disp' = [disp EXCEPT !.stage = "composed",
                                   !.account_ids_chunk = account_ids_chunk,
                                   !.call = call]
           /\ client' = [client EXCEPT !.composed = Append(@, call),
                                       !.trace = Append(@, <<"compose", disp.i>>)]
    /\ UNCHANGED <<args, environ, chain, pc, locals, scan, files, log, exit,
                   unit_in, unit_out>>

\* create_signed_extrinsic and the "About to ..." record
DispatchSign ==
    /\ pc = "dispatch"
    /\ disp.stage = "composed"
    /\ LET extrinsic == [call |-> disp.call,
                         keypair |-> locals.sender_origin_account_keypair]
       IN  /\ disp' = [disp EXCEPT !.stage = "signed", !.extrinsic = extrinsic,
                           !.expected_number_of_events = Len(disp.account_ids_chunk)]
           /\ client' = [client EXCEPT !.signed = Append(@, extrinsic),
                                       !.trace = Append(@, <<"sign", disp.i>>)]
    /\ log' = Append(log, IF disp.fn = "batch_transfer"
                          THEN "info: About to send transfers"
                          ELSE "info: About to upgrade accounts")
    /\ UNCHANGED <<args, environ, chain, pc, locals, scan, files, exit,
                   unit_in, unit_out>>

\* a submission that does not wait for inclusion
DispatchSubmit_no_wait ==
    /\ pc = "dispatch"
    /\ disp.stage = "signed"
    /\ client' = [client EXCEPT !.submitted = Append(@, disp.extrinsic),
                                !.in_flight = Append(@, disp.extrinsic),
                                !.trace = Append(@, <<"submit", disp.i>>)]
    /\ disp' = [disp EXCEPT !.stage = "for", !.i = @ + 1]
    /\ UNCHANGED <<args, environ, chain, pc, locals, scan, files, log, exit,
                   unit_in, unit_out>>

\* a submission that takes no notice of --dry-run
DispatchSubmit_ignore_dry_run ==
    /\ pc = "dispatch"
    /\ disp.stage = "signed"
    /\ client' = [client EXCEPT !.submitted = Append(@, disp.extrinsic),
                                !.in_flight = Append(@, disp.extrinsic),
                                !.trace = Append(@, <<"submit", disp.i>>)]
    /\ disp' = [disp EXCEPT !.stage = "submitted"]
    /\ UNCHANGED <<args, environ, chain, pc, locals, scan, files, log, exit,
                   unit_in, unit_out>>

\* submit_extrinsic up to the call of chain_connection.submit_extrinsic, or,
\* with --dry-run, the whole of it
DispatchSubmit ==
    /\ pc = "dispatch"
    /\ disp.stage = "signed"
    /\ IF ~args.dry_run
       THEN /\ client' = [client EXCEPT !.submitted = Append(@, disp.extrinsic),
                                        !.in_flight = Append(@, disp.extrinsic),
                                        !.trace = Append(@, <<"submit", disp.i>>)]
            /\ disp' = [disp EXCEPT !.stage = "submitted"]
            /\ UNCHANGED log
       ELSE /\ log' = Append(log, "info: Not sending extrinsic, --dry-run is enabled.")
            /\ client' = [client EXCEPT !.trace = Append(@, <<"skip", disp.i>>)]
            /\ disp' = [disp EXCEPT !.stage = "for", !.i = @ + 1]
    /\ UNCHANGED <<args, environ, chain, pc, locals, scan, files, exit,
                   unit_in, unit_out>>

\* what the node answers to a submission waiting for inclusion
SubmissionOutcomes == {"success", "fewer_events", "failed", "SubstrateRequestException"}

\* a failed inclusion handled like a transport failure
SubmitOutcome_raise_on_failed(outcome) ==
    IF outcome \in {"SubstrateRequestException", "failed"}
    THEN /\ log' = Append(log, "warning: Failed to submit extrinsic")
         /\ Uncaught("SubstrateRequestException")
         /\ disp' = [disp EXCEPT !.stage = "raised"]
    ELSE /\ log' = log \o <<"info: Extrinsic included in block">>
         /\ disp' = [disp EXCEPT !.stage = "for", !.i = @ + 1]
         /\ UNCHANGED <<pc, exit, unit_out>>

\* a transport failure logged and swallowed
SubmitOutcome_swallow(outcome) ==
    IF outcome = "SubstrateRequestException"
    THEN /\ log' = Append(log, "warning: Failed to submit extrinsic")
         /\ disp' = [disp EXCEPT !.stage = "for", !.i = @ + 1]
         /\ UNCHANGED <<pc, exit, unit_out>>
    ELSE /\ log' = log \o <<"info: Extrinsic included in block">>
         /\ disp' = [disp EXCEPT !.stage = "for", !.i = @ + 1]
         /\ UNCHANGED <<pc, exit, unit_out>>

\* the rest of submit_extrinsic: the receipt, or the transport exception
SubmitOutcome(outcome) ==
    IF outcome = "SubstrateRequestException"
    THEN /\ log' = Append(log, "warning: Failed to submit extrinsic")
         /\ Uncaught("SubstrateRequestException")
         /\ disp' = [disp EXCEPT !.stage = "raised"]
    ELSE /\ log' = log \o <<"info: Extrinsic included in block">>
                \o (CASE outcome = "success" -> <<"debug: Extrinsic success.">>
                      [] outcome = "fewer_events" ->
                            <<"debug: Extrinsic success.",
                              "debug: Emitted fewer events than expected">>
                      [] OTHER -> <<"warning: Extrinsic failed">>)
         /\ disp' = [disp EXCEPT !.stage = "for", !.i = @ + 1]
         /\ UNCHANGED <<pc, exit, unit_out>>

\* how many of the sub-calls of a submitted call the runtime executed: all
\* of the transfers of a batch that completed, a proper prefix of them when
\* the batch was interrupted (fewer events than transfers), none otherwise
ExecutedSubCalls(call, outcome) ==
    IF call.call_function # "batch" THEN {0}
    ELSE CASE outcome = "success" -> {Len(call.call_params.calls)}
           [] outcome = "fewer_events" -> 0..(Len(call.call_params.calls) - 1)
           [] OTHER -> {0}

\* System.Account after the first `executed` transfers of a batch
AccountsAfterTransfers(accounts, calls, executed) ==
    [k \in 1..Len(accounts) |->
        LET received ==
                {j \in 1..executed :
                    calls[j].call_params.dest = accounts[k].account_id.value}
        IN  IF received = {} THEN accounts[k]
            ELSE [accounts[k] EXCEPT !.info.data.free.value =
                      @ + Cardinality(received)
                          * calls[CHOOSE j \in received : TRUE].call_params.value]]

\* the chain after the node has handled a submitted call
ChainAfter(chain_state, call, executed) ==
    IF call.call_function = "batch"
    THEN [chain_state EXCEPT !.accounts =
              AccountsAfterTransfers(@, call.call_params.calls, executed)]
    ELSE chain_state

DispatchReceive ==
    /\ pc = "dispatch"
    /\ disp.stage = "submitted"
    /\ \E outcome \in SubmissionOutcomes :
          /\ SubmitOutcome(outcome)
          /\ client' = [client EXCEPT !.in_flight = <<>>,
                                      !.receipts = Append(@, outcome),
                                      !.trace = Append(@, <<outcome, disp.i>>)]
          /\ \E executed \in ExecutedSubCalls(disp.call, outcome) :
                chain' = ChainAfter(chain, disp.call, executed)
    /\ UNCHANGED <<args, environ, locals, scan, files, unit_in>>

\* the generator is exhausted: the dispatcher returns to __main__
DispatchReturn ==
    /\ pc = "dispatch"
    /\ disp.stage = "for"
    /\ disp.i >= Len(DispChunks)
    /\ disp' = [disp EXCEPT !.stage = "returned"]
    /\ IF disp.fn = "batch_transfer"
       THEN /\ log' = Append(log, "info: Transfers done.")
            /\ pc' = "main_434"
       ELSE /\ log' = Append(log, "info: Upgrade accounts done.")
            /\ pc' = "main_445"
    /\ UNCHANGED <<args, environ, chain, locals, scan, client, files, exit,
                   unit_in, unit_out>>

---------------------------------------------------------------------------
(* save_accounts_to_json_file and __main__ *)

DustFile == "dust-accounts.json"
FailedInvariantsFile == "accounts-with-failed-invariants.json"

\* a writer that appends to what the file already holds
save_accounts_to_json_file_append(fs, json_file_name, accounts) ==
    [fs EXCEPT ![json_file_name] = [exists |-> TRUE, data |-> @.data \o accounts]]

\* open(json_file_name, 'w') and json.dump(accounts, f)
save_accounts_to_json_file(fs, json_file_name, accounts) ==
    [fs EXCEPT ![json_file_name] = [exists |-> TRUE, data |-> accounts]]

\* an exit that does not tell the causes apart
Exit_always_one(code) ==
    /\ pc' = "terminated"
    /\ exit' = [code |-> 1, exception |-> "SystemExit"]

\* sys.exit(code)
Exit(code) ==
    /\ pc' = "terminated"
    /\ exit' = [code |-> code, exception |-> "SystemExit"]

InitLocals ==
    [sender_origin_account_seed |-> "unbound",
     chain_major_version |-> "unbound",
     existential_deposit |-> -1,
     sender_origin_account_keypair |-> [uri |-> "unbound"],
     dust_accounts_in_12_version |-> <<>>,
     invalid_accounts |-> <<>>]

\* Keypair.create_from_uri(seed)
create_from_uri(seed) == [uri |-> seed]

\* a start that reads the sender credential in every mode
MainCheckSender_always_reads ==
    /\ pc = "main_390"
    /\ locals' = [locals EXCEPT !.sender_origin_account_seed = environ.SENDER_ACCOUNT]
    /\ IF environ.SENDER_ACCOUNT = "None" /\ (args.fix_free_balance \/ args.upgrade_accounts)
       THEN /\ log' = Append(log, "error: env SENDER_ACCOUNT must exists. Exiting.")
            /\ Exit(1)
       ELSE /\ log' = log \o (IF args.dry_run
                              THEN <<"info: Dry-run mode is enabled.">> ELSE <<>>)
            /\ pc' = "main_399"
            /\ UNCHANGED exit
    /\ UNCHANGED <<args, environ, chain, scan, disp, client, files, unit_in, unit_out>>

\* lines 390-397: the sender credential
MainCheckSender ==
    /\ pc = "main_390"
    /\ IF args.fix_free_balance \/ args.upgrade_accounts
       THEN /\ locals' = [locals EXCEPT
                    !.sender_origin_account_seed = environ.SENDER_ACCOUNT]
            /\ IF environ.SENDER_ACCOUNT = "None"
               THEN /\ log' = Append(log, "error: env SENDER_ACCOUNT must exists. Exiting.")
                    /\ Exit(1)
               ELSE /\ log' = log \o (IF args.dry_run
                                      THEN <<"info: Dry-run mode is enabled.">> ELSE <<>>)
                    /\ pc' = "main_399"
                    /\ UNCHANGED exit
       ELSE /\ log' = log \o (IF args.dry_run
                              THEN <<"info: Dry-run mode is enabled.">> ELSE <<>>)
            /\ pc' = "main_399"
            /\ UNCHANGED <<locals, exit>>
    /\ UNCHANGED <<args, environ, chain, scan, disp, client, files, unit_in, unit_out>>

\* a version check that lets --upgrade-accounts through on every regime
MainVersionCheck_no_upgrade_precondition ==
    /\ pc = "main_399"
    /\ LET chain_major_version == get_chain_major_version(chain).value
       IN  /\ locals' = [locals EXCEPT !.chain_major_version = chain_major_version]
           /\ IF args.fix_free_balance /\ chain_major_version # PRE_12_MAJOR_VERSION
              THEN /\ log' = log \o <<"info: Connected", "info: Major version of chain",
                                      "error: --fix-free-balance can be used only on chains with pre-12 version. Exiting.">>
                   /\ Exit(2)
              ELSE /\ log' = log \o <<"info: Connected", "info: Major version of chain">>
                   /\ pc' = "main_413"
                   /\ UNCHANGED exit
    /\ UNCHANGED <<args, environ, chain, scan, disp, client, files, unit_in, unit_out>>

\* lines 399-411: connect, classify the runtime, check the mode against it
MainVersionCheck ==
    /\ pc = "main_399"
    /\ LET chain_major_version == get_chain_major_version(chain).value
       IN  /\ locals' = [locals EXCEPT !.chain_major_version = chain_major_version]
           /\ IF args.fix_free_balance /\ chain_major_version # PRE_12_MAJOR_VERSION
              THEN /\ log' = log \o <<"info: Connected", "info: Major version of chain",
                                      "error: --fix-free-balance can be used only on chains with pre-12 version. Exiting.">>
                   /\ Exit(2)
              ELSE IF args.upgrade_accounts
                      /\ chain_major_version # AT_LEAST_12_MAJOR_VERSION
              THEN /\ log' = log \o <<"info: Connected", "info: Major version of chain",
                                      "error: --upgrade-accounts can be used only on chains with at least 12 version. Exiting.">>
                   /\ Exit(3)
              ELSE /\ log' = log \o <<"info: Connected", "info: Major version of chain">>
                   /\ pc' = "main_413"
                   /\ UNCHANGED exit
    /\ UNCHANGED <<args, environ, chain, scan, disp, client, files, unit_in, unit_out>>

\* lines 413-414: the existential deposit
MainGetExistentialDeposit ==
    /\ pc = "main_413"
    /\ locals' = [locals EXCEPT !.existential_deposit = chain.ExistentialDeposit.value]
    /\ log' = Append(log, "info: Existential deposit is")
    /\ pc' = "main_416"
    /\ UNCHANGED <<args, environ, chain, scan, disp, client, files, exit,
                   unit_in, unit_out>>

\* find_dust_accounts: its assertion, then the scan it enters
find_dust_accounts(chain_connection, ed, chain_major_version) ==
    IF chain_major_version # PRE_12_MAJOR_VERSION
    THEN /\ Uncaught("AssertionError")
         /\ UNCHANGED <<scan, client>>
    ELSE /\ scan' = EnterFilterFalseAccounts(
                        "find_dust_accounts", chain_connection, ed, chain_major_version,
                        NotDustPred,
                        "'account valid in pre-12 version but not in 12 version'")
         /\ client' = [client EXCEPT !.query_map = @ + 1]
         /\ pc' = "filter_false_accounts"
         /\ UNCHANGED <<exit, unit_out>>

\* lines 416-421: --fix-free-balance looks for the dust accounts
MainFixFreeBalance ==
    /\ pc = "main_416"
    /\ IF args.fix_free_balance
       THEN /\ locals' = [locals EXCEPT !.sender_origin_account_keypair =
                              create_from_uri(locals.sender_origin_account_seed)]
            /\ log' = log \o <<"info: Using following account for transfers",
                               "info: Will send at most transfers in a batch.",
                               "info: Looking for accounts that would be dust in 12 version.">>
            /\ find_dust_accounts(chain, locals.existential_deposit,
                                  locals.chain_major_version)
       ELSE /\ pc' = "main_434"
            /\ UNCHANGED <<locals, log, scan, client, exit, unit_out>>
    /\ UNCHANGED <<args, environ, chain, disp, files, unit_in>>

\* lines 422-433: save the dust accounts and enter batch_transfer
MainDustFound ==
    /\ pc = "main_422"
    /\ IF Len(locals.dust_accounts_in_12_version) > 0
       THEN /\ files' = save_accounts_to_json_file(files, DustFile,
                                                   locals.dust_accounts_in_12_version)
            /\ log' = log \o <<"info: Found accounts that will be invalid in 12 version.",
                               "info: Wrote file",
                               "info: Adjusting balances by sending transfers.">>
            /\ disp' = EnterDispatcher("batch_transfer",
                                       FirstOfEach(locals.dust_accounts_in_12_version),
                                       args.transfer_calls_in_batch,
                                       locals.existential_deposit)
            /\ pc' = "dispatch"
       ELSE /\ log' = Append(log, "info: No dust accounts found, skipping transfers.")
            /\ pc' = "main_434"
            /\ UNCHANGED <<files, disp>>
    /\ UNCHANGED <<args, environ, chain, locals, scan, client, exit, unit_in, unit_out>>

\* lines 434-442 and 312-317: --upgrade-accounts lists all accounts
MainUpgradeAccounts ==
    /\ pc = "main_434"
    /\ IF args.upgrade_accounts
       THEN /\ locals' = [locals EXCEPT !.sender_origin_account_keypair =
                              create_from_uri(locals.sender_origin_account_seed)]
            /\ log' = log \o <<"info: Using following account for upgrade_accounts",
                               "info: Will upgrade at most accounts in a batch.",
                               "info: Querying all accounts.">>
            /\ scan' = EnterFilterFalseAccounts(
                           "upgrade_accounts", chain, locals.existential_deposit,
                           locals.chain_major_version, LambdaFalsePred, "'all accounts'")
            /\ client' = [client EXCEPT !.query_map = @ + 1]
            /\ pc' = "filter_false_accounts"
       ELSE /\ pc' = "main_445"
            /\ UNCHANGED <<locals, log, scan, client>>
    /\ UNCHANGED <<args, environ, chain, disp, files, exit, unit_in, unit_out>>

\* a sanity check that always applies the pre-12 invariants
MainSanityCheck_pre_regime ==
    /\ pc = "main_445"
    /\ log' = Append(log, "info: Performing pallet balances sanity checks.")
    /\ scan' = EnterFilterFalseAccounts(
                   "perform_account_sanity_checks", chain, locals.existential_deposit,
                   PRE_12_MAJOR_VERSION, CheckAccountInvariantsPred,
                   "'account invariants'")
    /\ client' = [client EXCEPT !.query_map = @ + 1]
    /\ pc' = "filter_false_accounts"
    /\ UNCHANGED <<args, environ, chain, locals, disp, files, exit, unit_in, unit_out>>

\* lines 445-448 and 354-358: perform_account_sanity_checks enters its scan
MainSanityCheck ==
    /\ pc = "main_445"
    /\ log' = Append(log, "info: Performing pallet balances sanity checks.")
    /\ scan' = EnterFilterFalseAccounts(
                   "perform_account_sanity_checks", chain, locals.existential_deposit,
                   locals.chain_major_version, CheckAccountInvariantsPred,
                   "'account invariants'")
    /\ client' = [client EXCEPT !.query_map = @ + 1]
    /\ pc' = "filter_false_accounts"
    /\ UNCHANGED <<args, environ, chain, locals, disp, files, exit, unit_in, unit_out>>

\* lines 359-363 and 449: report the scan, DONE
MainSanityReport ==
    /\ pc = "sanity_359"
    /\ IF Len(locals.invalid_accounts) > 0
       THEN /\ files' = save_accounts_to_json_file(files, FailedInvariantsFile,
                                                   locals.invalid_accounts)
            /\ log' = log \o <<"warning: Found accounts that do not meet balances invariants!",
                               "info: Wrote file", "info: DONE">>
       ELSE /\ log' = log \o <<"info: All accounts on chain meet balances invariants.",
                               "info: DONE">>
            /\ UNCHANGED files
    /\ pc' = "done"
    /\ exit' = [code |-> 0, exception |-> "none"]
    /\ UNCHANGED <<args, environ, chain, locals, scan, disp, client, unit_in, unit_out>>

---------------------------------------------------------------------------
(* The run of the script *)

\* the value of the chain constant Balances.ExistentialDeposit of a run
ChainED == 1

\* the Namespace argparse can return: the two remediation switches are in a
\* mutually exclusive group; the batch size of a mode not asked for stays at
\* its default
RunArgs ==
    {[fix_free_balance |-> FALSE, upgrade_accounts |-> FALSE, dry_run |-> d,
      transfer_calls_in_batch |-> 64, upgrade_accounts_in_batch |-> 128] :
        d \in BOOLEAN}
    \cup
    {[fix_free_balance |-> TRUE, upgrade_accounts |-> FALSE, dry_run |-> d,
      transfer_calls_in_batch |-> n, upgrade_accounts_in_batch |-> 128] :
        d \in BOOLEAN, n \in 1..MaxBatch}
    \cup
    {[fix_free_balance |-> FALSE, upgrade_accounts |-> TRUE, dry_run |-> d,
      transfer_calls_in_batch |-> 64, upgrade_accounts_in_batch |-> n] :
        d \in BOOLEAN, n \in 1..MaxBatch}

\* (free, reserved) of the accounts of a run: below ED in total, below ED in
\* free balance alone, and at ED
RunBalances == {<<ChainED - 1, 0>>, <<ChainED - 1, 1>>, <<ChainED, 0>>}

\* account records of a run, in the layout of the chain's runtime
RunInfos(chain_major_version) ==
    IF chain_major_version = PRE_12_MAJOR_VERSION
    THEN {PreAccountInfo(1, 0, b[1], b[2], 0, 0) : b \in RunBalances}
    ELSE {PostAccountInfo(1, 0, b[1], b[2], 0, BigZero) : b \in RunBalances}

\* System.Account as query_map yields it: addresses 1..n in storage order
AccountMaps(infos, max_len) ==
    UNION {{[k \in 1..n |-> [account_id |-> Scale(k), info |-> f[k]]] :
                f \in [1..n -> infos]} : n \in 0..max_len}

Chain(spec_version, ed, accounts) ==
    [runtime_version |-> [specVersion |-> spec_version],
     ExistentialDeposit |-> Scale(ed),
     accounts |-> accounts]

RunChains ==
    UNION {{Chain(v, ChainED, a) :
                a \in AccountMaps(RunInfos(from_spec_version(v).value), MaxAccounts)} :
           v \in {LastPre12SpecVersion, LastPre12SpecVersion + 1}}

NoFiles ==
    [f \in {DustFile, FailedInvariantsFile} |-> [exists |-> FALSE, data |-> <<>>]]

\* the working directory of a run: an earlier run left both its artifacts
EarlierFiles ==
    [f \in {DustFile, FailedInvariantsFile} |->
        [exists |-> TRUE, data |-> <<<<0, "stale">>>>]]

Running == [code |-> -1, exception |-> "none"]
NoUnitIn == [fn |-> "none"]
NoUnitOut == [done |-> FALSE, exc |-> "none", value |-> <<>>]

Init ==
    /\ chain \in RunChains
    /\ args \in RunArgs
    /\ environ \in {[SENDER_ACCOUNT |-> "None"], [SENDER_ACCOUNT |-> "seed"]}
    /\ pc = "main_390"
    /\ locals = InitLocals
    /\ scan = NoScan
    /\ disp = NoDisp
    /\ client = NoClient
    /\ files = EarlierFiles
    /\ log = <<>>
    /\ exit = Running
    /\ unit_in = NoUnitIn
    /\ unit_out = NoUnitOut

Next ==
    \/ MainCheckSender
    \/ MainVersionCheck
    \/ MainGetExistentialDeposit
    \/ MainFixFreeBalance
    \/ MainDustFound
    \/ MainUpgradeAccounts
    \/ MainSanityCheck
    \/ MainSanityReport
    \/ ScanFetchPage
    \/ ScanIterate
    \/ ScanReturn
    \/ DispatchComposeCall
    \/ DispatchSign
    \/ DispatchSubmit
    \/ DispatchReceive
    \/ DispatchReturn

Spec == Init /\ [][Next]_vars

---------------------------------------------------------------------------
(* Direct calls of the functions, with arguments drawn from bounded sets *)

\* the records of the chains scanned in SpecUnit
UnitScanInfos == {PreAccountInfo(1, 0, 1, 0, 0, 0), PreAccountInfo(1, 0, 0, 1, 0, 0)}

\* the calls of SpecUnit: the classifier on every spec version, the two
\* predicates on every record of either layout under either regime, chunks on
\* every short list, the scanner on every short chain with every predicate
UnitInit ==
    /\ LET UnitPreInfos ==
               {PreAccountInfo(p, c, f, r, m, e) :
                   p \in 0..MaxRefCount, c \in 0..MaxRefCount, f \in 0..MaxBalance,
                   r \in 0..MaxBalance, m \in 0..MaxBalance, e \in 0..MaxBalance}
           UnitPostInfos ==
               {PostAccountInfo(p, c, f, r, z, g) :
                   p \in 0..MaxRefCount, c \in 0..MaxRefCount, f \in 0..MaxBalance,
                   r \in 0..MaxBalance, z \in 0..MaxBalance, g \in FlagsValues}
       IN  unit_in \in
               {[fn |-> "get_chain_major_version", chain_connection |-> Chain(v, 0, <<>>)] :
                   v \in 0..MaxSpecVersion}
               \cup
               {[fn |-> f, account |-> a, chain_major_version |-> m, ed |-> e] :
                   f \in {"check_account_invariants",
                          "check_if_account_would_be_dust_in_12_version"},
                   a \in UnitPreInfos \cup UnitPostInfos, m \in ChainMajorVersion,
                   e \in 0..MaxED}
               \cup
               {[fn |-> "chunks", list_of_elements |-> l, n |-> n] :
                   l \in UNION {[1..len -> {"a", "b"}] : len \in 0..MaxListLen},
                   n \in 1..MaxChunk}
               \cup
               {[fn |-> "filter_false_accounts", chain_connection |-> Chain(0, 0, a),
                 check_accounts_predicate |-> TablePred(t)] :
                   a \in AccountMaps(UnitScanInfos, MaxScanLen),
                   t \in SUBSET UnitScanInfos}
    /\ unit_out = NoUnitOut
    /\ chain = IF unit_in.fn \in {"get_chain_major_version", "filter_false_accounts"}
               THEN unit_in.chain_connection ELSE Chain(0, 0, <<>>)
    /\ args \in {a \in RunArgs : ~a.fix_free_balance /\ ~a.upgrade_accounts /\ ~a.dry_run}
    /\ environ = [SENDER_ACCOUNT |-> "None"]
    /\ pc = "unit_call"
    /\ locals = InitLocals
    /\ scan = NoScan
    /\ disp = NoDisp
    /\ client = NoClient
    /\ files = NoFiles
    /\ log = <<>>
    /\ exit = Running

UnitReturn(r) ==
    /\ unit_out' = [done |-> TRUE, exc |-> r.exc, value |-> r.value]
    /\ pc' = "unit_done"
    /\ UNCHANGED <<args, environ, chain, locals, scan, disp, client, files, log, exit,
                   unit_in>>

UnitGetChainMajorVersion ==
    /\ pc = "unit_call"
    /\ unit_in.fn = "get_chain_major_version"
    /\ UnitReturn(get_chain_major_version(unit_in.chain_connection))

UnitCheckAccountInvariants ==
    /\ pc = "unit_call"
    /\ unit_in.fn = "check_account_invariants"
    /\ UnitReturn(check_account_invariants(
                      unit_in.account, unit_in.chain_major_version, unit_in.ed))

UnitCheckDust ==
    /\ pc = "unit_call"
    /\ unit_in.fn = "check_if_account_would_be_dust_in_12_version"
    /\ UnitReturn(check_if_account_would_be_dust_in_12_version(
                      unit_in.account, unit_in.chain_major_version, unit_in.ed))

UnitChunks ==
    /\ pc = "unit_call"
    /\ unit_in.fn = "chunks"
    /\ UnitReturn(Ret(chunks(unit_in.list_of_elements, unit_in.n)))

UnitFilterFalseAccounts ==
    /\ pc = "unit_call"
    /\ unit_in.fn = "filter_false_accounts"
    /\ scan' = EnterFilterFalseAccounts(
                   "unit", unit_in.chain_connection, 0, PRE_12_MAJOR_VERSION,
                   unit_in.check_accounts_predicate, "")
    /\ client' = [client EXCEPT !.query_map = @ + 1]
    /\ pc' = "filter_false_accounts"
    /\ UNCHANGED <<args, environ, chain, locals, disp, files, log, exit,
                   unit_in, unit_out>>

UnitNext ==
    \/ UnitGetChainMajorVersion
    \/ UnitCheckAccountInvariants
    \/ UnitCheckDust
    \/ UnitChunks
    \/ UnitFilterFalseAccounts
    \/ ScanFetchPage
    \/ ScanIterate
    \/ ScanReturn

SpecUnit == UnitInit /\ [][UnitNext]_vars

---------------------------------------------------------------------------
(* Properties of the predicates and of the classifier (SpecUnit) *)

\* a finished direct call of fn
Called(fn) == unit_in.fn = fn /\ unit_out.done

IsPreLayout(account) == DOMAIN account.data = {"free", "reserved", "misc_frozen", "fee_frozen"}
IsPostLayout(account) == DOMAIN account.data = {"free", "reserved", "frozen", "flags"}

\* the reference-counter rule, on the plain values of a record
RefCountersOk(a) ==
    (a.providers <= 1 /\ a.consumers = 0) \/ (a.consumers > 0 /\ a.providers = 1)

\* flags < 2^127: bit 127, the top bit of the most significant limb, is clear
FlagsBelowTwoPow127(flags) == flags[1] < 2 ^ 15

AtLeastUpgradeExpected(a, ed) ==
    /\ RefCountersOk(a)
    /\ a.data.free >= ed
    /\ a.data.free + a.data.reserved >= a.data.frozen
    /\ \/ FlagsBelowTwoPow127(a.data.flags)
       \/ (a.data.frozen = 0 /\ a.data.reserved = 0)
       \/ a.consumers > 0

PreUpgradeExpected(a, ed) ==
    /\ RefCountersOk(a)
    /\ a.data.free + a.data.reserved >= ed
    /\ a.data.free >= a.data.misc_frozen
    /\ a.data.free >= a.data.fee_frozen

\* C1: under AT_LEAST_12_MAJOR_VERSION check_account_invariants returns,
\* without raising, TRUE exactly when the reference-counter rule, free >= ED,
\* free + reserved >= frozen and (flags < 2^127 or (frozen = 0 and
\* reserved = 0) or consumers > 0) all hold, and FALSE otherwise.
C1_AtLeastUpgradePredicate ==
    (/\ Called("check_account_invariants")
     /\ unit_in.chain_major_version = AT_LEAST_12_MAJOR_VERSION
     /\ IsPostLayout(unit_in.account))
    => /\ unit_out.exc = "none"
       /\ unit_out.value \in BOOLEAN
       /\ unit_out.value = AtLeastUpgradeExpected(serialize(unit_in.account), unit_in.ed)

\* C1 witness: an upgraded account with a reserved balance and no consumer
\* is rejected although its three other sub-checks hold.
C1_Witness ==
    /\ Called("check_account_invariants")
    /\ unit_in.chain_major_version = AT_LEAST_12_MAJOR_VERSION
    /\ IsPostLayout(unit_in.account)
    /\ unit_in.account.data.flags.value = BigPow2(127)
    /\ unit_in.account.data.reserved.value = 1
    /\ unit_in.account.consumers.value = 0
    /\ unit_in.account.providers.value = 1
    /\ unit_in.account.data.free.value = 2
    /\ unit_in.account.data.frozen.value = 0
    /\ unit_in.ed = 2
    /\ unit_out.exc = "none"
    /\ unit_out.value = FALSE

\* C2: under PRE_12_MAJOR_VERSION check_account_invariants returns TRUE
\* exactly when the reference-counter rule holds, free + reserved >= ED and
\* free >= max(misc_frozen, fee_frozen); so it is FALSE when free + reserved
\* < ED, and FALSE when providers > 1 or (consumers > 0 and providers = 0).
C2_PreUpgradePredicate ==
    (/\ Called("check_account_invariants")
     /\ unit_in.chain_major_version = PRE_12_MAJOR_VERSION
     /\ IsPreLayout(unit_in.account))
    => LET a == serialize(unit_in.account)
       IN  /\ unit_out.exc = "none"
           /\ unit_out.value = PreUpgradeExpected(a, unit_in.ed)
           /\ (a.data.free + a.data.reserved < unit_in.ed => unit_out.value = FALSE)
           /\ (a.providers > 1 \/ (a.consumers > 0 /\ a.providers = 0)
                  => unit_out.value = FALSE)

\* C2 witness: an account whose free balance alone is below ED, but whose
\* total balance covers it, is accepted.
C2_Witness ==
    /\ Called("check_account_invariants")
    /\ unit_in.chain_major_version = PRE_12_MAJOR_VERSION
    /\ IsPreLayout(unit_in.account)
    /\ unit_in.account.data.free.value = 1
    /\ unit_in.account.data.reserved.value = 1
    /\ unit_in.account.data.misc_frozen.value = 1
    /\ unit_in.account.consumers.value = 2
    /\ unit_in.ed = 2
    /\ unit_out.exc = "none"
    /\ unit_out.value = TRUE

\* C3: the classifier never fails and returns one of the two regimes:
\* PRE_12_MAJOR_VERSION for every spec version <= 65 and
\* AT_LEAST_12_MAJOR_VERSION for every spec version >= 66.
C3_ClassifierTotal ==
    Called("get_chain_major_version")
    => LET v == unit_in.chain_connection.runtime_version.specVersion
       IN  /\ unit_out.exc = "none"
           /\ unit_out.value \in {PRE_12_MAJOR_VERSION, AT_LEAST_12_MAJOR_VERSION}
           /\ (v <= 65 => unit_out.value = PRE_12_MAJOR_VERSION)
           /\ (v >= 66 => unit_out.value = AT_LEAST_12_MAJOR_VERSION)

\* C3 witness: the classifier has answered for spec version 65, the last
\* one of the pre-12 regime.
C3_Witness ==
    /\ Called("get_chain_major_version")
    /\ unit_in.chain_connection.runtime_version.specVersion = 65
    /\ unit_out.value = PRE_12_MAJOR_VERSION

\* C4: for a PRE_12_MAJOR_VERSION account that satisfies the pre-upgrade
\* invariants the dust predicate returns TRUE if and only if free < ED.
C4_DustIffFreeBelowED ==
    (/\ Called("check_if_account_would_be_dust_in_12_version")
     /\ unit_in.chain_major_version = PRE_12_MAJOR_VERSION
     /\ IsPreLayout(unit_in.account)
     /\ PreUpgradeExpected(serialize(unit_in.account), unit_in.ed))
    => /\ unit_out.exc = "none"
       /\ unit_out.value = (serialize(unit_in.account).data.free < unit_in.ed)

\* C4 witness: free = ED - 1 and reserved = 1 give TRUE.
C4_Witness ==
    /\ Called("check_if_account_would_be_dust_in_12_version")
    /\ unit_in.chain_major_version = PRE_12_MAJOR_VERSION
    /\ IsPreLayout(unit_in.account)
    /\ unit_in.ed = 2
    /\ unit_in.account.data.free.value = unit_in.ed - 1
    /\ unit_in.account.data.reserved.value = 1
    /\ unit_out.exc = "none"
    /\ unit_out.value = TRUE

\* C5: called with AT_LEAST_12_MAJOR_VERSION, or with an account that fails
\* the pre-upgrade invariants, the dust predicate raises and returns nothing.
C5_DustAbortsOnBrokenPrecondition ==
    (/\ Called("check_if_account_would_be_dust_in_12_version")
     /\ \/ unit_in.chain_major_version = AT_LEAST_12_MAJOR_VERSION
        \/ /\ IsPreLayout(unit_in.account)
           /\ ~PreUpgradeExpected(serialize(unit_in.account), unit_in.ed))
    => unit_out.exc = "AssertionError"

\* C5 witness: the predicate has raised for a PRE_12_MAJOR_VERSION account
\* whose total balance is below ED.
C5_Witness ==
    /\ Called("check_if_account_would_be_dust_in_12_version")
    /\ unit_in.chain_major_version = PRE_12_MAJOR_VERSION
    /\ IsPreLayout(unit_in.account)
    /\ unit_in.account.providers.value = 1
    /\ unit_in.account.consumers.value = 0
    /\ unit_in.account.data.free.value + unit_in.account.data.reserved.value < unit_in.ed
    /\ unit_out.exc = "AssertionError"

---------------------------------------------------------------------------
(* Properties of the scanner and of chunks (SpecUnit) *)

RECURSIVE Flatten(_)
Flatten(seqs) == IF seqs = <<>> THEN <<>> ELSE Head(seqs) \o Flatten(Tail(seqs))

\* the accounts of the chain a predicate table is false on, as the pairs the
\* scanner returns, in storage order
RECURSIVE FalsePairs(_, _)
FalsePairs(accounts, false_on) ==
    IF accounts = <<>> THEN <<>>
    ELSE (IF Head(accounts).info \in false_on
          THEN <<<<Head(accounts).account_id.value, serialize(Head(accounts).info)>>>>
          ELSE <<>>)
         \o FalsePairs(Tail(accounts), false_on)

\* C6: a finished scan has visited every account of the chain once, in the
\* order of the iterator, counted them all, and returns exactly the
\* (address, serialized record) pairs its predicate was false on, in that
\* order and without duplicates.
C6_ScannerReturnsFalseAccounts ==
    Called("filter_false_accounts")
    => LET accounts == unit_in.chain_connection.accounts
           result == unit_out.value
       IN  /\ unit_out.exc = "none"
           /\ scan.visited = [k \in 1..Len(accounts) |-> accounts[k].account_id.value]
           /\ scan.total_accounts_count = Len(accounts)
           /\ result = FalsePairs(accounts, unit_in.check_accounts_predicate.false_on)
           /\ \A j, k \in 1..Len(result) : j # k => result[j][1] # result[k][1]

\* C6 witness: five accounts in pages of 2, 2 and 1, the predicate false on
\* the second and the fifth only.
C6_Witness ==
    /\ Called("filter_false_accounts")
    /\ Len(unit_in.chain_connection.accounts) = 5
    /\ Len(unit_out.value) = 2
    /\ unit_out.value[1][1] = 2
    /\ unit_out.value[2][1] = 5
    /\ scan.total_accounts_count = 5

\* C7: for n >= 1 chunks yields ceil(len / n) chunks of at most n elements,
\* all but possibly the last of exactly n, whose concatenation in order is
\* the list; an empty list yields no chunk.
C7_ChunksPartitionTheList ==
    Called("chunks")
    => LET l == unit_in.list_of_elements
           n == unit_in.n
           cs == unit_out.value
       IN  /\ Len(cs) = (Len(l) + n - 1) \div n
           /\ \A k \in 1..Len(cs) : Len(cs[k]) >= 1 /\ Len(cs[k]) <= n
           /\ \A k \in 1..Len(cs) - 1 : Len(cs[k]) = n
           /\ \A k \in 1..Len(cs) :
                 \A j \in 1..Len(cs[k]) : cs[k][j] = l[(k - 1) * n + j]
           /\ Flatten(cs) = l
           /\ (l = <<>> => cs = <<>>)

\* C7 witness: five addresses and n = 2 give chunks of sizes 2, 2, 1.
C7_Witness ==
    /\ Called("chunks")
    /\ Len(unit_in.list_of_elements) = 5
    /\ unit_in.n = 2
    /\ Len(unit_out.value) = 3
    /\ Len(unit_out.value[1]) = 2
    /\ Len(unit_out.value[2]) = 2
    /\ Len(unit_out.value[3]) = 1

---------------------------------------------------------------------------
(* Properties of the dispatchers (Spec) *)

\* the addresses a composed call names, in order
CallAddresses(call) ==
    IF call.call_function = "batch"
    THEN [k \in 1..Len(call.call_params.calls) |-> call.call_params.calls[k].call_params.dest]
    ELSE call.call_params.who

\* the k-th contiguous slice of n addresses of the dispatcher's list
NthSlice(k) ==
    SubSeq(disp.accounts, (k - 1) * disp.n + 1, Min(k * disp.n, Len(disp.accounts)))

\* trace entries that end the handling of a chunk and let the loop go on
Resolutions == {"success", "fewer_events", "failed", "skip"}

\* C8: in batch_transfer and in upgrade_accounts the chunks are handled in
\* list order and one at a time: a chunk is composed only when it is the
\* first or when the outcome of the chunk before it has been observed, it is
\* signed after it is composed, submitted after it is signed, its outcome
\* follows its submission, at most one extrinsic is in flight, and the k-th
\* submission carries the k-th slice of the list.
C8_ChunksStrictlySequential ==
    /\ Len(client.in_flight) <= 1
    /\ (client.in_flight # <<>> =>
            /\ disp.stage = "submitted"
            /\ client.in_flight[1] = client.submitted[Len(client.submitted)])
    /\ \A k \in 1..Len(client.trace) :
          LET e == client.trace[k]
          IN  CASE e[1] = "compose" ->
                      IF k = 1 THEN e[2] = 0
                      ELSE /\ client.trace[k - 1][1] \in Resolutions
                           /\ client.trace[k - 1][2] = e[2] - 1
                [] e[1] = "sign" -> k > 1 /\ client.trace[k - 1] = <<"compose", e[2]>>
                [] e[1] \in {"submit", "skip"} ->
                      k > 1 /\ client.trace[k - 1] = <<"sign", e[2]>>
                [] OTHER -> k > 1 /\ client.trace[k - 1] = <<"submit", e[2]>>
    /\ \A k \in 1..Len(client.submitted) :
          CallAddresses(client.submitted[k].call) = NthSlice(k)
    /\ \A k \in 1..Len(client.composed) :
          CallAddresses(client.composed[k]) = NthSlice(k)

\* C8 witness: batch_transfer has the extrinsic of its second chunk in
\* flight, after the first one failed on chain.
C8_Witness ==
    /\ disp.fn = "batch_transfer"
    /\ disp.stage = "submitted"
    /\ disp.i = 1
    /\ client.receipts = <<"failed">>
    /\ Len(client.in_flight) = 1

\* C9: once the submission of chunk k has raised a transport error nothing
\* else happens in the dispatcher: no later chunk is composed, signed or
\* submitted, chunk k is not submitted again, and the exception leaves the
\* dispatcher and __main__ uncaught.
C9_TransportErrorAborts ==
    \A k \in 1..Len(client.trace) :
        client.trace[k][1] = "SubstrateRequestException"
        => /\ k = Len(client.trace)
           /\ Len(client.composed) = client.trace[k][2] + 1
           /\ Len(client.signed) = client.trace[k][2] + 1
           /\ Len(client.submitted) = client.trace[k][2] + 1
           /\ Len(client.receipts) = client.trace[k][2] + 1
           /\ disp.stage = "raised"
           /\ pc = "terminated"
           /\ exit.exception = "SubstrateRequestException"
           /\ ~ENABLED Next

\* C9 witness: the first of at least two chunks raised.
C9_Witness ==
    /\ client.receipts = <<"SubstrateRequestException">>
    /\ Len(DispChunks) >= 2
    /\ pc = "terminated"

\* C10: an inclusion failure or an event shortfall of chunk k does not stop the
\* run: the next thing the dispatcher does is compose chunk k + 1, the run
\* can go on until it is done unless a transport error ends it, a dispatcher
\* that returns has submitted every chunk once and in order, and a run that
\* is done has gone through the sanity scan.
C10_InclusionFailureDoesNotHalt ==
    /\ \A k \in 1..Len(client.trace) :
          client.trace[k][1] \in {"failed", "fewer_events"}
          => /\ (k < Len(client.trace) =>
                    client.trace[k + 1] = <<"compose", client.trace[k][2] + 1>>)
             /\ (pc = "terminated" =>
                    /\ exit.exception = "SubstrateRequestException"
                    /\ client.trace[Len(client.trace)][1] = "SubstrateRequestException")
             /\ (pc \notin {"done", "terminated"} => ENABLED Next)
    /\ (disp.stage = "returned" /\ ~args.dry_run =>
            /\ Len(client.submitted) = (Len(disp.accounts) + disp.n - 1) \div disp.n
            /\ Len(client.receipts) = Len(client.submitted)
            /\ \A k \in 1..Len(client.submitted) :
                  CallAddresses(client.submitted[k].call) = NthSlice(k)
            /\ pc \in {"main_434", "main_445", "filter_false_accounts", "sanity_359", "done"})
    /\ (pc = "done" =>
            /\ scan.pred = CheckAccountInvariantsPred
            /\ scan.caller = "returned"
            /\ exit.code = 0)

\* C10 witness: a run is done although its first chunk failed on chain and
\* its second one emitted fewer events than expected.
C10_Witness ==
    /\ pc = "done"
    /\ Len(client.receipts) >= 2
    /\ client.receipts[1] = "failed"
    /\ client.receipts[2] = "fewer_events"
    /\ Len(client.submitted) = Len(client.receipts)

---------------------------------------------------------------------------
(* Dry-run mode *)

\* how often x occurs in seq
Occurrences(seq, x) == Cardinality({k \in 1..Len(seq) : seq[k] = x})

NotSendingNotice == "info: Not sending extrinsic, --dry-run is enabled."

\* the chunks of the running dispatcher whose call has been composed, and
\* those whose extrinsic has been signed
ChunksComposed == disp.i + (IF disp.stage \in {"composed", "signed", "submitted", "raised"} THEN 1 ELSE 0)
ChunksSigned == disp.i + (IF disp.stage \in {"signed", "submitted", "raised"} THEN 1 ELSE 0)

\* the call a dispatcher composes for a chunk
CallOfChunk(fn, account_ids_chunk, amount) ==
    IF fn = "batch_transfer" THEN TransferBatchCall(account_ids_chunk, amount)
    ELSE UpgradeAccountsCall(account_ids_chunk)

\* C11: with --dry-run, whatever the worklist, the submission operation of
\* the chain client is never called at any point of the run (nothing is
\* submitted, in flight or answered), every chunk the dispatcher has
\* handled had its call composed and its extrinsic signed, one "not
\* sending" notice is in the log per handled chunk, and a dispatcher that
\* has returned has handled every chunk of its worklist.
C11_DryRunNeverSubmits ==
    (args.dry_run /\ unit_in.fn = "none") =>
        /\ client.submitted = <<>>
        /\ client.in_flight = <<>>
        /\ client.receipts = <<>>
        /\ \A k \in 1..Len(client.trace) : client.trace[k][1] \in {"compose", "sign", "skip"}
        /\ Occurrences(log, NotSendingNotice) = disp.i
        /\ Len(client.composed) = ChunksComposed
        /\ Len(client.signed) = ChunksSigned
        /\ \A k \in 1..Len(client.composed) :
              client.composed[k] = CallOfChunk(disp.fn, DispChunks[k], disp.amount)
        /\ \A k \in 1..Len(client.signed) :
              client.signed[k] = [call |-> client.composed[k],
                                  keypair |-> locals.sender_origin_account_keypair]
        /\ disp.stage = "returned" => disp.i = Len(DispChunks)

C11_Witness ==
    /\ args.dry_run
    /\ disp.stage = "returned"
    /\ Len(DispChunks) >= 2
    /\ Occurrences(log, NotSendingNotice) = Len(DispChunks)
    /\ Len(client.signed) = Len(DispChunks)

---------------------------------------------------------------------------
(* Fatal precondition failures *)

RemediationAsked == args.fix_free_balance \/ args.upgrade_accounts

\* the regime of the chain of the run
Regime == from_spec_version(chain.runtime_version.specVersion).value

\* the exit code the fatal preconditions of lines 390-411 demand, 0 if they
\* all hold
FatalExitCode ==
    IF RemediationAsked /\ environ.SENDER_ACCOUNT = "None" THEN 1
    ELSE IF args.fix_free_balance /\ Regime # PRE_12_MAJOR_VERSION THEN 2
    ELSE IF args.upgrade_accounts /\ Regime # AT_LEAST_12_MAJOR_VERSION THEN 3
    ELSE 0

\* no account scan, no call built, signed or submitted, no file written
NoWorkDone ==
    /\ client = NoClient
    /\ scan = NoScan
    /\ disp = NoDisp
    /\ files = EarlierFiles
    /\ locals.dust_accounts_in_12_version = <<>>
    /\ locals.invalid_accounts = <<>>

\* C12: a run ends by sys.exit exactly when a fatal precondition fails, with
\* the code of the failed precondition (1 missing sender credential with a
\* remediation flag, 2 --fix-free-balance off PRE_12, 3 --upgrade-accounts
\* off AT_LEAST_12), and then nothing was scanned, built, signed, submitted
\* or written; a run whose preconditions fail does no such work at any point.
C12_FatalPreconditionExits ==
    unit_in.fn = "none" =>
        /\ exit.exception = "SystemExit" =>
              /\ pc = "terminated"
              /\ exit.code = FatalExitCode
              /\ exit.code \in {1, 2, 3}
        /\ FatalExitCode # 0 =>
              /\ NoWorkDone
              /\ pc \in {"main_390", "main_399", "terminated"}
              /\ pc = "terminated" =>
                    exit = [code |-> FatalExitCode, exception |-> "SystemExit"]

C12_Witness ==
    /\ pc = "terminated"
    /\ exit = [code |-> 3, exception |-> "SystemExit"]
    /\ args.upgrade_accounts
    /\ environ.SENDER_ACCOUNT # "None"
    /\ Len(chain.accounts) > 0
    /\ NoWorkDone

---------------------------------------------------------------------------
(* The sanity check at the end of a run *)

\* the run is over: DONE was logged, or the interpreter has exited
RunEnded == pc \in {"done", "terminated"}

\* the scan of perform_account_sanity_checks has run to its end
SanityScanCompleted ==
    /\ scan.caller = "returned"
    /\ scan.pred = CheckAccountInvariantsPred
    /\ scan.name = "'account invariants'"

\* the scan of perform_account_sanity_checks has been entered
SanityScanEntered ==
    /\ scan.caller \in {"perform_account_sanity_checks", "returned"}
    /\ scan.pred = CheckAccountInvariantsPred

\* the addresses of the chain's accounts, in storage order
ChainAccountIds == [k \in 1..Len(chain.accounts) |-> chain.accounts[k].account_id.value]

\* the addresses of the accounts that fail the invariants of a regime
FailingAccountIds(chain_major_version) ==
    LET Fails(k) == ~check_account_invariants(chain.accounts[k].info, chain_major_version,
                                              chain.ExistentialDeposit.value).value
    IN  SelectSeq(ChainAccountIds, Fails)

\* C13 as stated: every run that got past the fatal precondition checks and
\* has ended, has run the sanity check (runs ended by the assertion of the
\* dust predicate are left out, so that this does not rest on that failure)
C13_SanityCheckAlwaysRuns ==
    (unit_in.fn = "none" /\ FatalExitCode = 0 /\ RunEnded
         /\ exit.exception # "AssertionError")
        => SanityScanCompleted

\* C13, amended: a run past the fatal precondition checks that reaches DONE
\* has run the sanity check as its last step, after the remediation branch
\* (if any) returned, over every account, with the invariant predicate of
\* the regime derived at version check; a run that ends otherwise was ended
\* by an uncaught exception of the remediation branch (a transport error
\* of a submission or a failed assertion of the dust scan) and never
\* entered the sanity check; and a run that has not ended can take a step.
C13_SanityCheckEndsCompletedRuns ==
    (unit_in.fn = "none" /\ FatalExitCode = 0) =>
        /\ pc = "done" =>
              /\ SanityScanCompleted
              /\ exit = [code |-> 0, exception |-> "none"]
              /\ scan.chain_major_version = Regime
              /\ locals.chain_major_version = Regime
              /\ scan.visited = ChainAccountIds
              /\ FirstOfEach(locals.invalid_accounts) = FailingAccountIds(Regime)
              /\ disp.stage = (IF args.upgrade_accounts
                                  \/ locals.dust_accounts_in_12_version # <<>>
                               THEN "returned" ELSE "idle")
        /\ pc = "terminated" =>
              /\ exit.code = 1
              /\ exit.exception \in {"SubstrateRequestException", "AssertionError"}
              /\ exit.exception = "SubstrateRequestException" => disp.stage = "raised"
              /\ exit.exception = "AssertionError" =>
                    scan.caller = "find_dust_accounts" /\ args.fix_free_balance
              /\ ~SanityScanEntered
        /\ SanityScanEntered =>
              /\ pc \in {"filter_false_accounts", "sanity_359", "done"}
              /\ disp.stage \in {"idle", "returned"}
              /\ client.in_flight = <<>>
        /\ ~RunEnded => ENABLED Next

C13_Witness ==
    /\ pc = "done"
    /\ args.upgrade_accounts
    /\ Regime = AT_LEAST_12_MAJOR_VERSION
    /\ disp.stage = "returned"
    /\ Len(client.submitted) >= 2
    /\ SanityScanCompleted
    /\ locals.invalid_accounts # <<>>

---------------------------------------------------------------------------
(* Invariant violations are data *)

\* the addresses the violations artifact lists
ArtifactIds(json_file_name) == FirstOfEach(files[json_file_name].data)

\* C14: in every mode, a run on a chain that holds an account failing the
\* invariants of the current regime is not ended by that account: unless a
\* fatal precondition or a transport error ends it, the run reaches DONE
\* and the failing accounts are those the violations artifact lists.
C14_ViolationsNeverAbortTheRun ==
    (/\ unit_in.fn = "none"
     /\ FatalExitCode = 0
     /\ FailingAccountIds(Regime) # <<>>
     /\ RunEnded
     /\ exit.exception # "SubstrateRequestException")
        => /\ pc = "done"
           /\ exit.exception = "none"
           /\ files[FailedInvariantsFile].exists
           /\ ArtifactIds(FailedInvariantsFile) = FailingAccountIds(Regime)

\* where C14 holds: audit-only and upgrade-accounts runs
C14_HoldsOutsideFixFreeBalance ==
    (/\ unit_in.fn = "none"
     /\ ~args.fix_free_balance
     /\ FatalExitCode = 0
     /\ FailingAccountIds(Regime) # <<>>
     /\ RunEnded
     /\ exit.exception # "SubstrateRequestException")
        => /\ pc = "done"
           /\ exit.exception = "none"
           /\ files[FailedInvariantsFile].exists
           /\ ArtifactIds(FailedInvariantsFile) = FailingAccountIds(Regime)

\* the failing run: --fix-free-balance, and the dust scan raised on an
\* account that fails the pre-12 invariants
C14_AssertionAbortsTheRun ==
    /\ args.fix_free_balance
    /\ pc = "terminated"
    /\ exit = [code |-> 1, exception |-> "AssertionError"]
    /\ scan.caller = "find_dust_accounts"
    /\ FailingAccountIds(Regime) # <<>>
    /\ files = EarlierFiles

---------------------------------------------------------------------------
(* Audit-only mode *)

AuditOnly == ~args.fix_free_balance /\ ~args.upgrade_accounts

\* C15: no step of an audit-only run (neither remediation flag set) builds,
\* signs or submits a call, enters a dispatcher, reads the sender
\* credential or makes a keypair of it, changes the chain or touches the
\* dust artifact: the run reads the runtime version, the existential
\* deposit and the accounts (one scan, the sanity scan) and the only file
\* it may write is the violations artifact.
C15_AuditOnlyIsReadOnly ==
    [][(AuditOnly /\ unit_in.fn = "none") =>
          /\ chain' = chain
          /\ client'.composed = <<>>
          /\ client'.signed = <<>>
          /\ client'.submitted = <<>>
          /\ client'.in_flight = <<>>
          /\ client'.receipts = <<>>
          /\ client'.trace = <<>>
          /\ client'.query_map <= 1
          /\ disp' = NoDisp
          /\ locals'.sender_origin_account_seed = "unbound"
          /\ locals'.sender_origin_account_keypair = [uri |-> "unbound"]
          /\ files'[DustFile] = files[DustFile]
          /\ scan'.caller \in {"none", "perform_account_sanity_checks", "returned"}
          /\ exit'.exception = "none"
          /\ pc' = "done" =>
                /\ client'.query_map = 1
                /\ locals'.chain_major_version = Regime
                /\ locals'.existential_deposit = chain.ExistentialDeposit.value]_vars

C15_Witness ==
    /\ AuditOnly
    /\ environ.SENDER_ACCOUNT = "seed"
    /\ pc = "done"
    /\ locals.invalid_accounts # <<>>
    /\ files[FailedInvariantsFile] = [exists |-> TRUE, data |-> locals.invalid_accounts]
    /\ client.composed = <<>>
    /\ locals.sender_origin_account_seed = "unbound"

---------------------------------------------------------------------------
(* upgrade_accounts *)

\* the address lists of the upgrade calls composed so far, one after another
UpgradedSoFar == Flatten([k \in 1..Len(client.composed) |-> client.composed[k].call_params.who])

\* in how many composed upgrade calls, at how many places, an address occurs
TimesListed(account_id) ==
    Cardinality({p \in UNION {{<<k, j>> : j \in 1..Len(client.composed[k].call_params.who)} :
                                  k \in 1..Len(client.composed)} :
                     client.composed[p[1]].call_params.who[p[2]] = account_id})

\* C16: in upgrade-accounts mode the worklist is the accounts of the chain
\* in iterator yield order; every composed call is Balances.upgrade_accounts
\* carrying the whole address list of its chunk; the calls taken in order
\* list a prefix of the worklist, each address once; the expected event
\* count handed to submit_extrinsic is the size of the chunk; what is
\* submitted is what was composed; and when the dispatcher returns (no
\* transport failure) every yielded account is in exactly one call.
C16_UpgradeCallsCoverEveryAccountOnce ==
    (unit_in.fn = "none" /\ disp.fn = "upgrade_accounts") =>
        /\ args.upgrade_accounts
        /\ disp.accounts = ChainAccountIds
        /\ pc = "dispatch" => scan.visited = ChainAccountIds
        /\ \A k \in 1..Len(client.composed) :
              /\ client.composed[k].call_module = "Balances"
              /\ client.composed[k].call_function = "upgrade_accounts"
              /\ client.composed[k].call_params.who = DispChunks[k]
              /\ client.composed[k].call_params.who # <<>>
        /\ UpgradedSoFar = SubSeq(ChainAccountIds, 1, Len(UpgradedSoFar))
        /\ \A k \in 1..Len(ChainAccountIds) :
              TimesListed(ChainAccountIds[k]) = (IF k <= Len(UpgradedSoFar) THEN 1 ELSE 0)
        /\ disp.stage \in {"signed", "submitted", "raised"} =>
              /\ disp.expected_number_of_events = Len(disp.call.call_params.who)
              /\ disp.expected_number_of_events = Len(DispChunks[disp.i + 1])
              /\ disp.extrinsic.call = client.composed[Len(client.composed)]
        /\ \A k \in 1..Len(client.submitted) :
              client.submitted[k].call = client.composed[k]
        /\ disp.stage = "returned" =>
              /\ UpgradedSoFar = ChainAccountIds
              /\ Len(client.composed) = Len(DispChunks)
              /\ ~args.dry_run => Len(client.submitted) = Len(client.composed)

C16_Witness ==
    /\ disp.fn = "upgrade_accounts"
    /\ disp.stage = "returned"
    /\ ~args.dry_run
    /\ Len(ChainAccountIds) = 3
    /\ Len(client.submitted) = 2
    /\ Len(client.submitted[1].call.call_params.who) = 2
    /\ UpgradedSoFar = ChainAccountIds

---------------------------------------------------------------------------
(* The scanner as "list all accounts" *)

\* a scan has returned and the chain is as the scan saw it
ScanJustReturned ==
    /\ unit_in.fn = "none"
    /\ scan.caller = "returned"
    /\ \/ pc \in {"main_422", "sanity_359"}
       \/ pc = "dispatch" /\ disp.fn = "upgrade_accounts"

\* the worklist of upgrade_accounts has just been built
UpgradeWorklistBuilt ==
    /\ unit_in.fn = "none"
    /\ pc = "dispatch"
    /\ disp.fn = "upgrade_accounts"

\* what the predicate of the last scan returns for the account at `address`
PredicateHoldsFor(address) ==
    CallPredicate(scan.pred, chain.accounts[address].info, scan.chain_major_version,
                  scan.ed).value

ReturnedAccountIds == FirstOfEach(scan.accounts_that_do_not_meet_predicate)

\* C17 as stated: a scan whose predicate returned true for every account
\* returns every yielded account, and the upgrade worklist is built by a
\* predicate that returns true for every account.
C17_AlwaysTruePredicateListsAll ==
    /\ (ScanJustReturned /\ \A k \in 1..Len(chain.accounts) : PredicateHoldsFor(k))
          => ReturnedAccountIds = ChainAccountIds
    /\ UpgradeWorklistBuilt =>
          /\ \A k \in 1..Len(chain.accounts) : PredicateHoldsFor(k)
          /\ disp.accounts = ChainAccountIds

\* C17, amended: the scanner returns the accounts on which the predicate
\* is FALSE, in yield order: a predicate true on every account gives the
\* empty list, a predicate false on every account gives every account the
\* iterator yields; the upgrade-accounts worklist is built with a predicate
\* that returns false for every account, and it is every account in yield
\* order.
C17_AlwaysFalsePredicateListsAll ==
    /\ ScanJustReturned =>
          /\ scan.visited = ChainAccountIds
          /\ ReturnedAccountIds =
                LET Fails(address) == ~PredicateHoldsFor(address)
                IN  SelectSeq(ChainAccountIds, Fails)
          /\ (\A k \in 1..Len(chain.accounts) : PredicateHoldsFor(k))
                => ReturnedAccountIds = <<>>
          /\ (\A k \in 1..Len(chain.accounts) : ~PredicateHoldsFor(k))
                => ReturnedAccountIds = ChainAccountIds
    /\ UpgradeWorklistBuilt =>
          /\ \A k \in 1..Len(chain.accounts) : ~PredicateHoldsFor(k)
          /\ ReturnedAccountIds = ChainAccountIds
          /\ disp.accounts = ChainAccountIds
          /\ \A k \in 1..Len(chain.accounts) :
                scan.accounts_that_do_not_meet_predicate[k] =
                    <<k, serialize(chain.accounts[k].info)>>

C17_Witness ==
    /\ UpgradeWorklistBuilt
    /\ disp.stage = "for"
    /\ disp.i = 0
    /\ scan.pred = LambdaFalsePred
    /\ disp.accounts = <<1, 2, 3>>
    /\ Len(scan.accounts_that_do_not_meet_predicate) = 3

---------------------------------------------------------------------------
(* The output artifacts *)

\* what a file holds once `accounts` has been written to it
Written(accounts) == [exists |-> TRUE, data |-> accounts]

\* C18 as stated: after a run that completed its sanity check the
\* violations artifact holds exactly the violation list of the run's
\* sanity scan, and after a completed fix-free-balance run the dust
\* artifact holds exactly the run's dust list.
C18_ArtifactsHoldTheListsOfTheRun ==
    (unit_in.fn = "none" /\ pc = "done") =>
        /\ files[FailedInvariantsFile].data = locals.invalid_accounts
        /\ args.fix_free_balance =>
              files[DustFile].data = locals.dust_accounts_in_12_version

\* C18, amended: an artifact is written only for a non-empty list, and then
\* it is overwritten in full, never merged with what it held: after a run
\* that completed its sanity check, accounts-with-failed-invariants.json
\* holds exactly the violation list of the run's sanity scan if that list
\* is non-empty and is otherwise as the run found it; likewise
\* dust-accounts.json holds exactly the dust list of a fix-free-balance run
\* if there was a dust account and is otherwise as the run found it; and at
\* no point of a run does a file hold anything but its earlier content or
\* one list of the run.
C18_ArtifactsOverwrittenWhenNonEmpty ==
    unit_in.fn = "none" =>
        /\ files[FailedInvariantsFile] \in
              {EarlierFiles[FailedInvariantsFile], Written(locals.invalid_accounts)}
        /\ files[DustFile] \in
              {EarlierFiles[DustFile], Written(locals.dust_accounts_in_12_version)}
        /\ pc = "done" =>
              /\ locals.invalid_accounts = scan.accounts_that_do_not_meet_predicate
              /\ files[FailedInvariantsFile] =
                    IF locals.invalid_accounts # <<>>
                    THEN Written(locals.invalid_accounts)
                    ELSE EarlierFiles[FailedInvariantsFile]
              /\ files[DustFile] =
                    IF locals.dust_accounts_in_12_version # <<>>
                    THEN Written(locals.dust_accounts_in_12_version)
                    ELSE EarlierFiles[DustFile]
              /\ locals.dust_accounts_in_12_version # <<>> => args.fix_free_balance

C18_Witness ==
    /\ pc = "done"
    /\ args.fix_free_balance
    /\ Len(locals.dust_accounts_in_12_version) >= 2
    /\ files[DustFile] = Written(locals.dust_accounts_in_12_version)
    /\ files[DustFile] # EarlierFiles[DustFile]
    /\ locals.invalid_accounts = <<>>
    /\ files[FailedInvariantsFile] = EarlierFiles[FailedInvariantsFile]

---------------------------------------------------------------------------
(* The two ED rules *)

\* C19: for the balances and ED of every call of check_account_invariants:
\* free >= ED implies free + reserved >= ED; an account with these balances,
\* no lock and no upgraded flag that the at-least-12 predicate accepts is
\* accepted by the pre-12 predicate; with free < ED the at-least-12
\* predicate rejects the account, also when free + reserved >= ED, while
\* the pre-12 predicate accepts it when free + reserved >= ED and its other
\* sub-checks hold; and the call itself returned accordingly.
C19_FreeBalanceRuleIsStricter ==
    (/\ Called("check_account_invariants")
     /\ \/ (unit_in.chain_major_version = AT_LEAST_12_MAJOR_VERSION
               /\ IsPostLayout(unit_in.account))
        \/ (unit_in.chain_major_version = PRE_12_MAJOR_VERSION
               /\ IsPreLayout(unit_in.account)))
    => LET a == serialize(unit_in.account)
           ed == unit_in.ed
           free == a.data.free
           reserved == a.data.reserved
           pre == check_account_invariants(
                      PreAccountInfo(a.providers, a.consumers, free, reserved, 0, 0),
                      PRE_12_MAJOR_VERSION, ed)
           post == check_account_invariants(
                       PostAccountInfo(a.providers, a.consumers, free, reserved, 0, BigZero),
                       AT_LEAST_12_MAJOR_VERSION, ed)
       IN  /\ pre.exc = "none" /\ post.exc = "none"
           /\ free >= ed => free + reserved >= ed
           /\ post.value => pre.value
           /\ free < ed => ~post.value
           /\ (free < ed /\ free + reserved >= ed /\ RefCountersOk(a))
                 => (pre.value /\ ~post.value)
           /\ (unit_in.chain_major_version = AT_LEAST_12_MAJOR_VERSION /\ free < ed)
                 => (unit_out.exc = "none" /\ unit_out.value = FALSE)
           /\ (/\ unit_in.chain_major_version = PRE_12_MAJOR_VERSION
               /\ free < ed
               /\ free + reserved >= ed
               /\ RefCountersOk(a)
               /\ free >= Max(a.data.misc_frozen, a.data.fee_frozen))
                 => (unit_out.exc = "none" /\ unit_out.value = TRUE)

\* C19 witness: an at-least-12 account whose total balance covers ED but
\* whose free balance does not is rejected, all its other sub-checks holding.
C19_Witness ==
    /\ Called("check_account_invariants")
    /\ unit_in.chain_major_version = AT_LEAST_12_MAJOR_VERSION
    /\ IsPostLayout(unit_in.account)
    /\ unit_in.account.providers.value = 1
    /\ unit_in.account.consumers.value = 0
    /\ unit_in.account.data.free.value = 1
    /\ unit_in.account.data.reserved.value = 1
    /\ unit_in.account.data.frozen.value = 0
    /\ unit_in.account.data.flags.value = BigZero
    /\ unit_in.ed = 2
    /\ unit_out.exc = "none"
    /\ unit_out.value = FALSE
    /\ check_account_invariants(PreAccountInfo(1, 0, 1, 1, 0, 0),
                                PRE_12_MAJOR_VERSION, 2).value

---------------------------------------------------------------------------
(* --fix-free-balance *)

\* the dust scan of a --fix-free-balance run has returned, which it only
\* does on a chain whose accounts all meet the pre-12 invariants
DustScanReturned ==
    /\ unit_in.fn = "none"
    /\ args.fix_free_balance
    /\ scan.caller \in {"returned", "perform_account_sanity_checks"}

\* the addresses the dust scan returned, and their records as it saw them
TransferTargets == FirstOfEach(locals.dust_accounts_in_12_version)
TargetSnapshot(j) == locals.dust_accounts_in_12_version[j][2]

IsTarget(address) == \E j \in 1..Len(TransferTargets) : TransferTargets[j] = address

\* the destinations of the transfers composed so far, one batch after another
TransferredSoFar == Flatten([k \in 1..Len(client.composed) |-> CallAddresses(client.composed[k])])

ChainED_Value == chain.ExistentialDeposit.value

\* C20: once the dust scan of a --fix-free-balance run has returned (every
\* account meets the pre-12 invariants): the transfer targets are exactly
\* the accounts that had free < ED, in iterator yield order; every composed
\* call is a Utility.batch of one Balances.transfer of amount ED per address
\* of its chunk; the batches taken in order list a prefix of the targets,
\* all of them once the dispatcher has returned, each target once; when
\* every batch was submitted and succeeded, every target has its scanned
\* free balance plus ED, so free >= ED; and when no account had free < ED
\* no dispatcher is entered and no call is built, signed or submitted.
C20_TransfersTopUpExactlyTheDustAccounts ==
    DustScanReturned =>
        /\ TransferTargets = SelectSeq(ChainAccountIds, IsTarget)
        /\ \A j \in 1..Len(TransferTargets) : TargetSnapshot(j).data.free < ChainED_Value
        /\ \A k \in 1..Len(chain.accounts) :
              ~IsTarget(k) => chain.accounts[k].info.data.free.value >= ChainED_Value
        /\ pc = "main_422" =>
              TransferTargets =
                  LET Dust(address) ==
                          chain.accounts[address].info.data.free.value < ChainED_Value
                  IN  SelectSeq(ChainAccountIds, Dust)
        /\ disp.fn = "batch_transfer" =>
              /\ disp.accounts = TransferTargets
              /\ disp.amount = ChainED_Value
        /\ \A k \in 1..Len(client.composed) :
              /\ client.composed[k].call_module = "Utility"
              /\ client.composed[k].call_function = "batch"
              /\ Len(client.composed[k].call_params.calls) = Len(DispChunks[k])
              /\ \A j \in 1..Len(DispChunks[k]) :
                    client.composed[k].call_params.calls[j] =
                        [call_module |-> "Balances", call_function |-> "transfer",
                         call_params |-> [dest |-> DispChunks[k][j],
                                          value |-> ChainED_Value]]
        /\ TransferredSoFar = SubSeq(TransferTargets, 1, Len(TransferredSoFar))
        /\ \A j \in 1..Len(TransferTargets) :
              Occurrences(TransferredSoFar, TransferTargets[j])
                  = (IF j <= Len(TransferredSoFar) THEN 1 ELSE 0)
        /\ disp.stage = "returned" => TransferredSoFar = TransferTargets
        /\ (/\ disp.stage = "returned"
            /\ ~args.dry_run
            /\ \A k \in 1..Len(client.receipts) : client.receipts[k] = "success")
              => /\ Len(client.receipts) = Len(DispChunks)
                 /\ \A j \in 1..Len(TransferTargets) :
                       LET free == chain.accounts[TransferTargets[j]].info.data.free.value
                       IN  /\ free = TargetSnapshot(j).data.free + ChainED_Value
                           /\ free >= ChainED_Value
        /\ (TransferTargets = <<>> /\ pc # "main_422") =>
              /\ disp = NoDisp
              /\ client.composed = <<>>
              /\ client.signed = <<>>
              /\ client.submitted = <<>>

\* C20 witness: three dust accounts were topped up by two batches that both
\* succeeded, and the run is done.
C20_Witness ==
    /\ DustScanReturned
    /\ pc = "done"
    /\ ~args.dry_run
    /\ Len(TransferTargets) = 3
    /\ client.receipts = <<"success", "success">>
    /\ Len(client.submitted[1].call.call_params.calls) = 2
    /\ \A j \in 1..3 :
          /\ TargetSnapshot(j).data.free < ChainED_Value
          /\ chain.accounts[TransferTargets[j]].info.data.free.value >= ChainED_Value
    /\ locals.invalid_accounts = <<>>

---------------------------------------------------------------------------
(* Other transactions on the chain while a dispatcher runs *)

\* somebody else's transfer brings the free balance of an account up to ED
OtherTransfer(address) ==
    /\ chain.accounts[address].info.data.free.value < chain.ExistentialDeposit.value
    /\ chain' = [chain EXCEPT !.accounts[address].info.data.free.value =
                                  chain.ExistentialDeposit.value]

\* somebody else's transfer creates an account, next in storage order
AccountCreated(info) ==
    /\ Len(chain.accounts) < MaxAccounts
    /\ chain' = [chain EXCEPT !.accounts =
                     Append(@, [account_id |-> Scale(Len(@) + 1), info |-> info])]

\* the chain moves on between the end of the scan and the submission of a
\* chunk: the script holds no lock on it
ChainChanges ==
    /\ pc = "dispatch"
    /\ disp.stage \in {"for", "composed", "signed"}
    /\ \/ \E address \in 1..Len(chain.accounts) : OtherTransfer(address)
       \/ \E info \in RunInfos(from_spec_version(chain.runtime_version.specVersion).value) :
             AccountCreated(info)
    /\ UNCHANGED <<args, environ, pc, locals, scan, disp, client, files, log, exit,
                   unit_in, unit_out>>

NextConcurrent ==
    \/ Next
    \/ ChainChanges

SpecConcurrent == Init /\ [][NextConcurrent]_vars

\* the list the scan that precedes a dispatcher returned
ScannedWorklist == FirstOfEach(scan.accounts_that_do_not_meet_predicate)

\* C21: on a chain that other transactions change while a dispatcher runs:
\* the worklist, the amount and the chunk size of a dispatcher are those of
\* the moment the scan ended and no step changes them; every call composed,
\* signed or submitted is the call of the k-th slice of that worklist with
\* that amount, whatever the chain holds by then; and a step in which the
\* chain changes otherwise than by the answer to a submission changes, adds
\* and removes no composed, signed or submitted call.
C21_RemediationWorksOnTheScanSnapshot ==
    [][unit_in.fn = "none" =>
          /\ (disp.fn = "none" /\ disp'.fn # "none") =>
                /\ disp'.accounts = ScannedWorklist'
                /\ disp'.amount = (IF disp'.fn = "batch_transfer"
                                   THEN locals.existential_deposit ELSE 0)
                /\ client'.composed = <<>>
          /\ disp.fn # "none" =>
                /\ disp'.fn = disp.fn
                /\ disp'.accounts = disp.accounts
                /\ disp'.amount = disp.amount
                /\ disp'.n = disp.n
          /\ disp'.fn # "none" =>
                /\ \A k \in 1..Len(client'.composed) :
                      client'.composed[k] =
                          CallOfChunk(disp'.fn, (NthSlice(k))', disp'.amount)
                /\ \A k \in 1..Len(client'.signed) :
                      client'.signed[k].call = client'.composed[k]
                /\ \A k \in 1..Len(client'.submitted) :
                      client'.submitted[k] = client'.signed[k]
          /\ (chain' # chain /\ client'.receipts = client.receipts) =>
                /\ client' = client
                /\ disp' = disp
                /\ locals' = locals]_vars

\* C21 witness: a batch is in flight that still holds a transfer to an
\* account somebody else has topped up since the scan, while a dust account
\* created since the scan is in no call.
C21_Witness ==
    /\ pc = "dispatch"
    /\ disp.fn = "batch_transfer"
    /\ disp.stage = "submitted"
    /\ client.in_flight # <<>>
    /\ \E j \in 1..Len(disp.account_ids_chunk) :
          /\ chain.accounts[disp.account_ids_chunk[j]].info.data.free.value
                 >= chain.ExistentialDeposit.value
          /\ client.in_flight[1].call.call_params.calls[j].call_params.dest
                 = disp.account_ids_chunk[j]
    /\ Len(chain.accounts) > Len(scan.visited)
    /\ chain.accounts[Len(chain.accounts)].info.data.free.value
           < chain.ExistentialDeposit.value
    /\ \A j \in 1..Len(disp.accounts) : disp.accounts[j] # Len(chain.accounts)

---------------------------------------------------------------------------
(* The run from the command line on *)

\* the switches a command line can give: every Namespace of RunArgs, and
\* the command lines that give both remediation switches
CommandLines ==
    RunArgs
    \cup
    {[fix_free_balance |-> TRUE, upgrade_accounts |-> TRUE, dry_run |-> d,
      transfer_calls_in_batch |-> n, upgrade_accounts_in_batch |-> n] :
        d \in BOOLEAN, n \in 1..MaxBatch}

\* the state before get_args: args holds what the command line gives
InitArgv ==
    /\ chain \in RunChains
    /\ args \in CommandLines
    /\ environ \in {[SENDER_ACCOUNT |-> "None"], [SENDER_ACCOUNT |-> "seed"]}
    /\ pc = "get_args"
    /\ locals = InitLocals
    /\ scan = NoScan
    /\ disp = NoDisp
    /\ client = NoClient
    /\ files = EarlierFiles
    /\ log = <<>>
    /\ exit = Running
    /\ unit_in = NoUnitIn
    /\ unit_out = NoUnitOut

\* parser.parse_args(): --fix-free-balance and --upgrade-accounts are in
\* one mutually exclusive group, and parser.error exits with status 2
get_args ==
    /\ pc = "get_args"
    /\ IF args.fix_free_balance /\ args.upgrade_accounts
       THEN Exit(2)
       ELSE /\ pc' = "main_390"
            /\ UNCHANGED exit
    /\ UNCHANGED <<args, environ, chain, locals, scan, disp, client, files, log,
                   unit_in, unit_out>>

NextArgv ==
    \/ get_args
    \/ Next

SpecArgv == InitArgv /\ [][NextArgv]_vars

\* the functions of the calls in a sequence of calls
CallFunctions(calls) == {calls[k].call_function : k \in 1..Len(calls)}

\* the functions of every call built, signed or submitted so far
FunctionsUsed ==
    CallFunctions(client.composed)
        \cup CallFunctions([k \in 1..Len(client.signed) |-> client.signed[k].call])
        \cup CallFunctions([k \in 1..Len(client.submitted) |-> client.submitted[k].call])

\* C22: in every run, whatever the command line: the regime is derived
\* once; calls of at most one of the two dispatchers are ever built, signed
\* or submitted; transfer batches only under PRE_12 in a run asked for
\* --fix-free-balance alone, upgrade calls only under AT_LEAST_12 in a run
\* asked for --upgrade-accounts alone; and a run given both switches ends
\* in get_args without any scan, call or file write.
C22_AtMostOneRemediation ==
    unit_in.fn = "none" =>
        /\ locals.chain_major_version \in {"unbound", Regime}
        /\ FunctionsUsed \in {{}, {"batch"}, {"upgrade_accounts"}}
        /\ disp.fn \in {"none", "batch_transfer", "upgrade_accounts"}
        /\ ("batch" \in FunctionsUsed \/ disp.fn = "batch_transfer") =>
              /\ Regime = PRE_12_MAJOR_VERSION
              /\ locals.chain_major_version = PRE_12_MAJOR_VERSION
              /\ args.fix_free_balance /\ ~args.upgrade_accounts
              /\ disp.fn = "batch_transfer"
        /\ ("upgrade_accounts" \in FunctionsUsed \/ disp.fn = "upgrade_accounts") =>
              /\ Regime = AT_LEAST_12_MAJOR_VERSION
              /\ locals.chain_major_version = AT_LEAST_12_MAJOR_VERSION
              /\ args.upgrade_accounts /\ ~args.fix_free_balance
              /\ disp.fn = "upgrade_accounts"
        /\ (args.fix_free_balance /\ args.upgrade_accounts) =>
              /\ pc \in {"get_args", "terminated"}
              /\ pc = "terminated" => exit = [code |-> 2, exception |-> "SystemExit"]
              /\ NoWorkDone

\* C22 witness: a run from the command line on sent two transfer batches on
\* a pre-12 chain, never entered upgrade_accounts, and is done.
C22_Witness ==
    /\ pc = "done"
    /\ args.fix_free_balance
    /\ Regime = PRE_12_MAJOR_VERSION
    /\ Len(client.submitted) = 2
    /\ FunctionsUsed = {"batch"}
    /\ disp.fn = "batch_transfer"
    /\ disp.stage = "returned"

====
